---- MODULE Spec2Model ----
(***************************************************************************)
(* The transactional state tree of the FVM (fvm/src/state_tree.rs) over    *)
(* the IPLD HAMT facade (ipld/hamt/src/hamt.rs).                           *)
(*                                                                         *)
(* A StateTree value is the record `tree`; the block store it owns through *)
(* its HAMT is the variable `store` (a MemoryBlockstore: the set of CIDs   *)
(* that have a block).  Every method is a pure operator from the receiver  *)
(* (and the store) to the receiver after the call, the store after the     *)
(* call and the returned Result; the actions apply the operators.          *)
(***************************************************************************)
EXTENDS Integers, Sequences, FiniteSets, TLC

(* ---------------------------------------------------------------------- *)
(* Bounds of the exploration                                               *)
(* ---------------------------------------------------------------------- *)
\* number of calls the callers make on one tree and its successors
MaxSteps == 4
\* number of calls the callers make on one Hamt and its successors
MaxHamtCalls == 5
\* number of trees the callers construct over one store
MaxOpens == 2
\* calls on the HistoryMap used on its own
MaxHistoryCalls == 4
\* calls on the ActorState used on its own
MaxFundsCalls == 4

(* ---------------------------------------------------------------------- *)
(* Program constants                                                       *)
(* ---------------------------------------------------------------------- *)
INIT_ACTOR_ID == 1
FIRST_NON_SINGLETON_ADDR == 100
V5 == 5

\* actor ids the callers use (1 is the init actor)
ActorIds == {1, 2}
\* the state tree versions of fvm_shared::state::StateTreeVersion
Versions == 0..V5

(* ---------------------------------------------------------------------- *)
(* Option and Result                                                       *)
(* ---------------------------------------------------------------------- *)
None == <<"None">>
Some(v) == <<"Some", v>>
IsSome(o) == o[1] = "Some"
Ok(v) == <<"Ok", v>>
IsOk(r) == r[1] = "Ok"
\* ExecutionError::Fatal
Fatal == <<"Err", "Fatal">>
\* ExecutionError::Syscall(ErrorNumber::ReadOnly)
ReadOnly == <<"Err", "ReadOnly">>
\* ExecutionError::Syscall(ErrorNumber::InsufficientFunds)
InsufficientFunds == <<"Err", "InsufficientFunds">>

(* ---------------------------------------------------------------------- *)
(* Finite maps (HashMap)                                                   *)
(* ---------------------------------------------------------------------- *)
EmptyMap == <<>>
MapGet(m, k) == IF k \in DOMAIN m THEN Some(m[k]) ELSE None
MapPut(m, k, v) == [x \in (DOMAIN m) \cup {k} |-> IF x = k THEN v ELSE m[x]]
MapRemove(m, k) == [x \in (DOMAIN m) \ {k} |-> m[x]]

(* ---------------------------------------------------------------------- *)
(* Addresses                                                               *)
(* ---------------------------------------------------------------------- *)
new_id(id) == <<"ID", id>>
new_secp256k1(n) == <<"Secp256k1", n>>
\* the non-ID addresses the callers use, and all the addresses they use
SecpAddrs == {new_secp256k1(1)}
Addrs == {new_id(2)} \cup SecpAddrs

RECURSIVE leb128(_)
leb128(n) ==
    IF n < 128 THEN <<n>> ELSE <<128 + (n % 128)>> \o leb128(n \div 128)

RECURSIVE unleb128(_)
unleb128(b) ==
    IF Len(b) = 1 THEN b[1] ELSE (b[1] - 128) + 128 * unleb128(Tail(b))

\* Address::to_bytes: protocol byte, then the payload
to_bytes(addr) ==
    IF addr[1] = "ID" THEN <<0>> \o leb128(addr[2]) ELSE <<1, addr[2]>>

\* Address::from_bytes
from_bytes(b) ==
    IF b[1] = 0 THEN new_id(unleb128(Tail(b))) ELSE new_secp256k1(b[2])

(* ---------------------------------------------------------------------- *)
(* Blocks, CIDs and the block store                                        *)
(* ---------------------------------------------------------------------- *)
\* a CID names exactly one block (blake2b-256 of its canonical CBOR)
Cid(block) == <<"cid", block>>
BlockOf(c) == c[2]
\* identity-hash CIDs of the tests (never in the store)
EMPTY_ARR_CID == Cid(<<"empty">>)
DUMMY_ACCOUNT_ACTOR_CODE_ID == Cid(<<"code", "fil/test/dummyaccount">>)
DUMMY_INIT_ACTOR_CODE_ID == Cid(<<"code", "fil/test/dummyinit">>)

StateInfo0 == <<"info">>
StateRoot(version, info, actors) == <<"root", version, info, actors>>
\* a serialised HAMT root node of the actors HAMT
ActorsNode(root) == <<"actors", root>>
\* a serialised HAMT root node of the init actor's address map
AddrMapNode(root) == <<"addrmap", root>>
\* the init actor's State {address_map, next_id, network_name}
InitState(address_map, next_id) == <<"init", address_map, next_id>>

\* CborStore::get_cbor
get_cbor(s, c) == IF c \in s THEN Some(BlockOf(c)) ELSE None
\* CborStore::put_cbor (the returned CID is Cid(block))
put_cbor(s, block) == s \cup {Cid(block)}

(* ---------------------------------------------------------------------- *)
(* HistoryMap                                                              *)
(* ---------------------------------------------------------------------- *)
HistoryMap_default == [map |-> EmptyMap, history |-> <<>>]

\* insert that keeps the value of a key that is already present
HistoryMap_insert_if_vacant(hm, k, v) ==
    [map |-> IF k \in DOMAIN hm.map THEN hm.map ELSE MapPut(hm.map, k, v),
     history |-> Append(hm.history, <<k, MapGet(hm.map, k)>>)]

HistoryMap_insert(hm, k, v) ==
    [map |-> MapPut(hm.map, k, v),
     history |-> Append(hm.history, <<k, MapGet(hm.map, k)>>)]

HistoryMap_get(hm, k) == MapGet(hm.map, k)

\* get_or_try_insert_with that records the insertion before it calls f
get_or_try_insert_with_records_first(hm, k, f) ==
    IF k \in DOMAIN hm.map
    THEN [hm |-> hm, res |-> Ok(hm.map[k])]
    ELSE IF ~IsOk(f)
         THEN [hm |-> [hm EXCEPT !.history = Append(@, <<k, None>>)],
               res |-> f]
         ELSE [hm |-> [map |-> MapPut(hm.map, k, f[2]),
                       history |-> Append(hm.history, <<k, None>>)],
               res |-> f]

\* f is the Result the closure would return; it is only looked at on a miss
get_or_try_insert_with(hm, k, f) ==
    IF k \in DOMAIN hm.map
    THEN [hm |-> hm, res |-> Ok(hm.map[k])]
    ELSE IF ~IsOk(f)
         THEN [hm |-> hm, res |-> f]
         ELSE [hm |-> [map |-> MapPut(hm.map, k, f[2]),
                       history |-> Append(hm.history, <<k, None>>)],
               res |-> f]

RECURSIVE Undo_oldest_first(_, _)
\* the drain(height..) loop without rev(): undo the records oldest first
Undo_oldest_first(hm, height) ==
    IF Len(hm.history) <= height THEN hm
    ELSE LET rec == hm.history[height + 1]
             m == IF IsSome(rec[2])
                  THEN MapPut(hm.map, rec[1], rec[2][2])
                  ELSE MapRemove(hm.map, rec[1])
         IN Undo_oldest_first(
                [map |-> m,
                 history |-> SubSeq(hm.history, 1, height)
                             \o SubSeq(hm.history, height + 2, Len(hm.history))],
                height)

RECURSIVE Undo(_, _)
\* the drain(height..).rev() loop: undo the records from the newest down
Undo(hm, height) ==
    IF Len(hm.history) <= height THEN hm
    ELSE LET rec == hm.history[Len(hm.history)]
             m == IF IsSome(rec[2])
                  THEN MapPut(hm.map, rec[1], rec[2][2])
                  ELSE MapRemove(hm.map, rec[1])
         IN Undo([map |-> m,
                  history |-> SubSeq(hm.history, 1, Len(hm.history) - 1)],
                 height)

\* rollback that drops the undo records without applying them
rollback_truncate_only(hm, height) ==
    IF Len(hm.history) <= height THEN hm
    ELSE [hm EXCEPT !.history = SubSeq(@, 1, height)]

\* rollback that takes a height beyond the history for the height zero
rollback_wraps_height(hm, height) ==
    IF Len(hm.history) < height THEN Undo(hm, 0)
    ELSE IF Len(hm.history) = height THEN hm
    ELSE Undo(hm, height)

rollback(hm, height) ==
    IF Len(hm.history) <= height THEN hm ELSE Undo(hm, height)

history_len(hm) == Len(hm.history)

\* discard_history that clears the map together with the history
discard_history_and_map(hm) == HistoryMap_default

\* discard_history that keeps the oldest undo record
discard_history_but_one(hm) ==
    [hm EXCEPT !.history = IF @ = <<>> THEN <<>> ELSE <<@[1]>>]

discard_history(hm) == [hm EXCEPT !.history = <<>>]

(* ---------------------------------------------------------------------- *)
(* The trie below the Hamt facade (Node, Pointer, HashBits).               *)
(*                                                                         *)
(* A node is [ptrs |-> p], p a function from the occupied slots (the       *)
(* bitmap) to pointers.  A pointer is a bucket <<"Values", kvs>>, kvs the  *)
(* map of the key/value pairs it holds (serialised sorted by key), or a    *)
(* child <<"Link", node>>.  A node's block holds its children       *)
(* inline: the CID of a node is a function of the whole subtree below it,  *)
(* as it is through the child CIDs.                                        *)
(* ---------------------------------------------------------------------- *)
\* the Config of the tries and the hash function H, scaled down: two slots
\* per node, two pairs per bucket, three hash bits
BIT_WIDTH == 1
MAX_ARRAY_WIDTH == 2
HASH_BITS == 3

\* H::hash as an identity-like test hash: the low bits of the last key byte
Hash(k) == [i \in 1..HASH_BITS |-> (k[Len(k)] \div (2 ^ (i - 1))) % 2]

\* HashBits::next has bits left for the node at this depth
HasBits(depth) == (depth + 1) * BIT_WIDTH <= HASH_BITS

RECURSIVE BitsValue(_, _, _)
\* the value of the n hash bits after the first `from`
BitsValue(h, from, n) ==
    IF n = 0 THEN 0
    ELSE h[from + 1] + 2 * BitsValue(h, from + 1, n - 1)

\* the slot of key k in a node at this depth: the next BIT_WIDTH hash bits
Slot(k, depth) == BitsValue(Hash(k), depth * BIT_WIDTH, BIT_WIDTH)

Values(kvs) == <<"Values", kvs>>
Link(node) == <<"Link", node>>
IsValues(ptr) == ptr[1] = "Values"

Node_default == [ptrs |-> EmptyMap]

Node_is_empty(n) == DOMAIN n.ptrs = {}

RECURSIVE Node_get_at(_, _, _)
Node_get_at(n, k, depth) ==
    IF ~HasBits(depth) THEN None
    ELSE LET idx == Slot(k, depth) IN
         IF idx \notin DOMAIN n.ptrs THEN None
         ELSE IF IsValues(n.ptrs[idx]) THEN MapGet(n.ptrs[idx][2], k)
         ELSE Node_get_at(n.ptrs[idx][2], k, depth + 1)

\* Node::get
Node_get(root, k) == Node_get_at(root, k, 0)

RECURSIVE Node_pairs(_)
\* the (key, value) pairs Node::for_each visits
Node_pairs(n) ==
    UNION {IF IsValues(n.ptrs[i])
           THEN {<<k, n.ptrs[i][2][k]>> : k \in DOMAIN n.ptrs[i][2]}
           ELSE Node_pairs(n.ptrs[i][2]) : i \in DOMAIN n.ptrs}

RECURSIVE modify_value(_, _, _, _, _)
RECURSIVE InsertAll(_, _, _, _)
\* the re-insertion of the pairs of a split bucket into the new child
InsertAll(r, kvs, keys, depth) ==
    IF keys = {} \/ ~IsOk(r.res) THEN r
    ELSE LET k == CHOOSE x \in keys : TRUE IN
         InsertAll(modify_value(r.node, k, kvs[k], depth, TRUE),
                   kvs, keys \ {k}, depth)

\* Node::modify_value: res is Ok(<<old value, modified>>) or Err(MaxDepth)
modify_value(n, k, v, depth, overwrite) ==
    IF ~HasBits(depth) THEN [node |-> n, res |-> <<"Err", "MaxDepth">>]
    ELSE LET idx == Slot(k, depth) IN
    IF idx \notin DOMAIN n.ptrs
    THEN [node |-> [ptrs |-> MapPut(n.ptrs, idx, Values(MapPut(EmptyMap, k, v)))],
          res |-> Ok(<<None, TRUE>>)]
    ELSE IF ~IsValues(n.ptrs[idx])
    THEN LET r == modify_value(n.ptrs[idx][2], k, v, depth + 1, overwrite) IN
         IF ~IsOk(r.res) THEN [node |-> n, res |-> r.res]
         ELSE [node |-> [ptrs |-> MapPut(n.ptrs, idx, Link(r.node))],
               res |-> r.res]
    ELSE LET kvs == n.ptrs[idx][2] IN
    IF k \in DOMAIN kvs
    THEN IF overwrite
         THEN [node |-> [ptrs |-> MapPut(n.ptrs, idx, Values(MapPut(kvs, k, v)))],
               res |-> Ok(<<Some(kvs[k]), kvs[k] # v>>)]
         ELSE [node |-> n, res |-> Ok(<<None, FALSE>>)]
    ELSE IF Cardinality(DOMAIN kvs) >= MAX_ARRAY_WIDTH
    THEN \* the bucket is full: it becomes a child node one level down
         LET r == InsertAll(modify_value(Node_default, k, v, depth + 1, overwrite),
                            kvs, DOMAIN kvs, depth + 1) IN
         IF ~IsOk(r.res) THEN [node |-> n, res |-> r.res]
         ELSE [node |-> [ptrs |-> MapPut(n.ptrs, idx, Link(r.node))],
               res |-> Ok(<<None, TRUE>>)]
    ELSE [node |-> [ptrs |-> MapPut(n.ptrs, idx, Values(MapPut(kvs, k, v)))],
          res |-> Ok(<<None, TRUE>>)]

\* Node::set: the root after the call, and Ok(<<old value, modified>>)
Node_set(root, k, v, overwrite) == modify_value(root, k, v, 0, overwrite)

\* the pairs of the buckets of a node all of whose pointers are buckets
BucketPairs(n) ==
    [k \in UNION {DOMAIN n.ptrs[i][2] : i \in DOMAIN n.ptrs} |->
        LET i == CHOOSE j \in DOMAIN n.ptrs : k \in DOMAIN n.ptrs[j][2]
        IN n.ptrs[i][2][k]]

\* Pointer::clean: a child whose pointers are all buckets that fit into one
\* bucket collapses into that bucket, which restores the canonical form
clean(child) ==
    IF /\ \A i \in DOMAIN child.ptrs : IsValues(child.ptrs[i])
       /\ Cardinality(DOMAIN BucketPairs(child)) <= MAX_ARRAY_WIDTH
    THEN Values(BucketPairs(child))
    ELSE Link(child)

RECURSIVE rm_value(_, _, _)
\* Node::rm_value: the node after the call and the removed pair
rm_value(n, k, depth) ==
    IF ~HasBits(depth) THEN [node |-> n, deleted |-> None]
    ELSE LET idx == Slot(k, depth) IN
    IF idx \notin DOMAIN n.ptrs THEN [node |-> n, deleted |-> None]
    ELSE IF ~IsValues(n.ptrs[idx])
    THEN LET r == rm_value(n.ptrs[idx][2], k, depth + 1) IN
         IF ~IsSome(r.deleted) THEN [node |-> n, deleted |-> None]
         ELSE [node |-> [ptrs |-> MapPut(n.ptrs, idx, clean(r.node))],
               deleted |-> r.deleted]
    ELSE LET kvs == n.ptrs[idx][2] IN
    IF k \notin DOMAIN kvs THEN [node |-> n, deleted |-> None]
    ELSE IF DOMAIN kvs = {k}
    THEN [node |-> [ptrs |-> MapRemove(n.ptrs, idx)],
          deleted |-> Some(<<k, kvs[k]>>)]
    ELSE [node |-> [ptrs |-> MapPut(n.ptrs, idx, Values(MapRemove(kvs, k)))],
          deleted |-> Some(<<k, kvs[k]>>)]

\* Node::remove_entry
Node_remove_entry(root, k) ==
    [root |-> rm_value(root, k, 0).node, deleted |-> rm_value(root, k, 0).deleted]

(* ---------------------------------------------------------------------- *)
(* Hamt facade                                                             *)
(* ---------------------------------------------------------------------- *)
Hamt_new == [root |-> Node_default, flushed_cid |-> None]

\* load that does not remember the CID it loaded from
Hamt_load_forget_cid(s, cid) ==
    LET b == get_cbor(s, cid) IN
    IF ~IsSome(b) THEN <<"Err", "CidNotFound">>
    ELSE IF b[2][1] # "actors" THEN <<"Err", "Deserialize">>
    ELSE Ok([root |-> b[2][2], flushed_cid |-> None])

\* a missing block is CidNotFound; a block that is no node fails to decode
Hamt_load(s, cid) ==
    LET b == get_cbor(s, cid) IN
    IF ~IsSome(b) THEN <<"Err", "CidNotFound">>
    ELSE IF b[2][1] # "actors" THEN <<"Err", "Deserialize">>
    ELSE Ok([root |-> b[2][2], flushed_cid |-> Some(cid)])

Hamt_get(h, k) == Node_get(h.root, k)

Hamt_contains_key(h, k) == IsSome(Node_get(h.root, k))

Hamt_is_empty(h) == Node_is_empty(h.root)

\* set that returns None also when it replaces a value
Hamt_set_drop_old(h, k, v) ==
    LET r == Node_set(h.root, k, v, TRUE) IN
    IF ~IsOk(r.res) THEN [hamt |-> h, res |-> r.res]
    ELSE [hamt |-> [root |-> r.node,
                    flushed_cid |-> IF r.res[2][2] THEN None ELSE h.flushed_cid],
          res |-> Ok(None)]

\* set that forgets to clear the remembered CID
Hamt_set_keep_flushed_cid(h, k, v) ==
    LET r == Node_set(h.root, k, v, TRUE) IN
    IF ~IsOk(r.res) THEN [hamt |-> h, res |-> r.res]
    ELSE [hamt |-> [root |-> r.node, flushed_cid |-> h.flushed_cid],
          res |-> Ok(r.res[2][1])]

\* the Hamt after the call and Ok(old value), or the error of the trie
Hamt_set(h, k, v) ==
    LET r == Node_set(h.root, k, v, TRUE) IN
    IF ~IsOk(r.res) THEN [hamt |-> h, res |-> r.res]
    ELSE [hamt |-> [root |-> r.node,
                    flushed_cid |-> IF r.res[2][2] THEN None ELSE h.flushed_cid],
          res |-> Ok(r.res[2][1])]

\* set_if_absent that forgets to clear the remembered CID
Hamt_set_if_absent_keep_flushed_cid(h, k, v) ==
    LET r == Node_set(h.root, k, v, FALSE) IN
    IF ~IsOk(r.res) THEN [hamt |-> h, res |-> r.res]
    ELSE [hamt |-> [root |-> r.node, flushed_cid |-> h.flushed_cid],
          res |-> Ok(r.res[2][2])]

\* set_if_absent that asks the trie to overwrite
Hamt_set_if_absent_overwrites(h, k, v) ==
    LET r == Node_set(h.root, k, v, TRUE) IN
    IF ~IsOk(r.res) THEN [hamt |-> h, res |-> r.res]
    ELSE [hamt |-> [root |-> r.node,
                    flushed_cid |-> IF r.res[2][2] THEN None ELSE h.flushed_cid],
          res |-> Ok(r.res[2][2])]

\* the Hamt after the call and Ok(whether the pair was inserted)
Hamt_set_if_absent(h, k, v) ==
    LET r == Node_set(h.root, k, v, FALSE) IN
    IF ~IsOk(r.res) THEN [hamt |-> h, res |-> r.res]
    ELSE [hamt |-> [root |-> r.node,
                    flushed_cid |-> IF r.res[2][2] THEN None ELSE h.flushed_cid],
          res |-> Ok(r.res[2][2])]

\* delete that clears the remembered CID whether or not it removed a pair
Hamt_delete_always_clears(h, k) ==
    [hamt |-> [root |-> Node_remove_entry(h.root, k).root, flushed_cid |-> None],
     res |-> Ok(Node_remove_entry(h.root, k).deleted)]

\* delete that forgets to clear the remembered CID
Hamt_delete_keep_flushed_cid(h, k) ==
    [hamt |-> [root |-> Node_remove_entry(h.root, k).root,
               flushed_cid |-> h.flushed_cid],
     res |-> Ok(Node_remove_entry(h.root, k).deleted)]

\* the Hamt after the call and Ok(the removed pair, if any)
Hamt_delete(h, k) ==
    LET r == Node_remove_entry(h.root, k) IN
    [hamt |-> [root |-> r.root,
               flushed_cid |-> IF IsSome(r.deleted) THEN None ELSE h.flushed_cid],
     res |-> Ok(r.deleted)]

\* flush that serialises and stores the root whether or not it changed
Hamt_flush_always_writes(h, s) ==
    [hamt |-> [h EXCEPT !.flushed_cid = Some(Cid(ActorsNode(h.root)))],
     store |-> put_cbor(s, ActorsNode(h.root)),
     cid |-> Cid(ActorsNode(h.root)),
     puts |-> 1]

\* the Hamt after the call, the store after the call, the CID, and the number
\* of blocks the call put into the store
Hamt_flush(h, s) ==
    IF IsSome(h.flushed_cid)
    THEN [hamt |-> h, store |-> s, cid |-> h.flushed_cid[2], puts |-> 0]
    ELSE [hamt |-> [h EXCEPT !.flushed_cid = Some(Cid(ActorsNode(h.root)))],
          store |-> put_cbor(s, ActorsNode(h.root)),
          cid |-> Cid(ActorsNode(h.root)),
          puts |-> 1]

\* the set of (key, value) pairs for_each visits
Hamt_for_each(h) == Node_pairs(h.root)

(* ---------------------------------------------------------------------- *)
(* ActorState                                                              *)
(* ---------------------------------------------------------------------- *)
ActorState_new(code, state, balance, sequence, address) ==
    [code |-> code, state |-> state, sequence |-> sequence,
     balance |-> balance, delegated_address |-> address]

\* ActorState::new_empty of an account without a delegated address
ActorState_new_empty ==
    [code |-> DUMMY_ACCOUNT_ACTOR_CODE_ID, state |-> EMPTY_ARR_CID,
     sequence |-> 0, balance |-> 0, delegated_address |-> None]

\* deduct_funds that also refuses to take the whole balance
deduct_funds_keeps_one(act, amt) ==
    IF act.balance <= amt
    THEN [actor |-> act, res |-> InsufficientFunds]
    ELSE [actor |-> [act EXCEPT !.balance = @ - amt], res |-> Ok(<<>>)]

\* TokenAmount is a signed big integer: no width, no wrap-around
deduct_funds(act, amt) ==
    IF act.balance < amt
    THEN [actor |-> act, res |-> InsufficientFunds]
    ELSE [actor |-> [act EXCEPT !.balance = @ - amt], res |-> Ok(<<>>)]

deposit_funds(act, amt) == [act EXCEPT !.balance = @ + amt]

(* ---------------------------------------------------------------------- *)
(* The init actor's state (crate::init_actor::State)                       *)
(* ---------------------------------------------------------------------- *)
\* State::new_test: an empty address map, flushed, and the first free id
InitActorState_new_test ==
    InitState(Cid(AddrMapNode(EmptyMap)), FIRST_NON_SINGLETON_ADDR)

\* State::resolve_address: look the address up in the address-map HAMT
resolve_address(state, s, addr) ==
    LET m == get_cbor(s, state[2]) IN
    IF ~IsSome(m) \/ m[2][1] # "addrmap" THEN Fatal
    ELSE Ok(MapGet(m[2][2], to_bytes(addr)))

\* State::map_address_to_new_id: take next_id, bump it, set the address in
\* the address map and flush the map into the store
map_address_to_new_id(state, s, addr) ==
    LET m == get_cbor(s, state[2]) IN
    IF ~IsSome(m) \/ m[2][1] # "addrmap"
    THEN [state |-> state, store |-> s, res |-> Fatal]
    ELSE LET map == MapPut(m[2][2], to_bytes(addr), state[3]) IN
         [state |-> InitState(Cid(AddrMapNode(map)), state[3] + 1),
          store |-> put_cbor(s, AddrMapNode(map)),
          res |-> Ok(state[3])]

(* ---------------------------------------------------------------------- *)
(* StateTree                                                               *)
(* ---------------------------------------------------------------------- *)
\* new that builds a tree of whatever version it is given, with the header
\* object only for the versions that have one
StateTree_new_any_version(s, version) ==
    [res |-> Ok([hamt |-> Hamt_new,
                 version |-> version,
                 info |-> IF version = 0 THEN None ELSE Some(Cid(StateInfo0)),
                 actor_cache |-> HistoryMap_default,
                 resolve_cache |-> HistoryMap_default,
                 layers |-> <<>>,
                 read_only_layers |-> 0]),
     store |-> IF version = 0 THEN s ELSE put_cbor(s, StateInfo0)]

StateTree_new(s, version) ==
    IF version # V5
    THEN [res |-> Fatal, store |-> s]
    ELSE [res |-> Ok([hamt |-> Hamt_new,
                      version |-> version,
                      info |-> Some(Cid(StateInfo0)),
                      actor_cache |-> HistoryMap_default,
                      resolve_cache |-> HistoryMap_default,
                      layers |-> <<>>,
                      read_only_layers |-> 0]),
          store |-> put_cbor(s, StateInfo0)]

\* new_from_root that opens a root of any version
new_from_root_any_version(s, c) ==
    LET b == get_cbor(s, c) IN
    IF ~IsSome(b) \/ b[2][1] # "root" THEN Fatal
    ELSE LET h == Hamt_load(s, b[2][4]) IN
         IF ~IsOk(h) THEN Fatal
         ELSE Ok([hamt |-> h[2],
                  version |-> b[2][2],
                  info |-> Some(b[2][3]),
                  actor_cache |-> HistoryMap_default,
                  resolve_cache |-> HistoryMap_default,
                  layers |-> <<>>,
                  read_only_layers |-> 0])

new_from_root(s, c) ==
    LET b == get_cbor(s, c) IN
    IF ~IsSome(b) \/ b[2][1] # "root" THEN Fatal
    ELSE IF b[2][2] # V5 THEN Fatal
    ELSE LET h == Hamt_load(s, b[2][4]) IN
         IF ~IsOk(h) THEN Fatal
         ELSE Ok([hamt |-> h[2],
                  version |-> b[2][2],
                  info |-> Some(b[2][3]),
                  actor_cache |-> HistoryMap_default,
                  resolve_cache |-> HistoryMap_default,
                  layers |-> <<>>,
                  read_only_layers |-> 0])

is_read_only(t) == t.read_only_layers > 0

\* in_transaction that forgets the read-only frames
in_transaction_layers_only(t) == t.layers # <<>>

\* in_transaction that forgets the snapshot layers
in_transaction_read_only_only(t) == t.read_only_layers # 0

in_transaction(t) == ~(t.read_only_layers = 0 /\ t.layers = <<>>)

\* assert_writable that never rejects
assert_writable_always(t) == Ok(<<>>)

assert_writable(t) == IF is_read_only(t) THEN ReadOnly ELSE Ok(<<>>)

\* get_actor after the cache answered r: the actor of the entry
FromCache(t, r) ==
    [tree |-> [t EXCEPT !.actor_cache = r.hm], res |-> Ok(r.res[2].actor)]

\* get_actor that caches what it loaded as a dirty entry
get_actor_caches_dirty(t, id) ==
    FromCache(t, get_or_try_insert_with(t.actor_cache, id,
                     Ok([dirty |-> TRUE,
                         actor |-> Hamt_get(t.hamt, to_bytes(new_id(id)))])))

\* a miss looks the id up in the HAMT and caches the answer, clean
get_actor(t, id) ==
    FromCache(t, get_or_try_insert_with(t.actor_cache, id,
                     Ok([dirty |-> FALSE,
                         actor |-> Hamt_get(t.hamt, to_bytes(new_id(id)))])))

set_actor(t, id, actor) ==
    IF ~IsOk(assert_writable(t))
    THEN [tree |-> t, res |-> assert_writable(t)]
    ELSE [tree |-> [t EXCEPT !.actor_cache =
                       HistoryMap_insert(@, id, [dirty |-> TRUE,
                                                 actor |-> Some(actor)])],
          res |-> Ok(<<>>)]

\* delete_actor that drops the cache entry instead of recording the deletion
delete_actor_forget_entry(t, id) ==
    IF ~IsOk(assert_writable(t))
    THEN [tree |-> t, res |-> assert_writable(t)]
    ELSE [tree |-> [t EXCEPT !.actor_cache =
                       [map |-> MapRemove(@.map, id),
                        history |-> Append(@.history, <<id, MapGet(@.map, id)>>)]],
          res |-> Ok(<<>>)]

delete_actor(t, id) ==
    IF ~IsOk(assert_writable(t))
    THEN [tree |-> t, res |-> assert_writable(t)]
    ELSE [tree |-> [t EXCEPT !.actor_cache =
                       HistoryMap_insert(@, id, [dirty |-> TRUE,
                                                 actor |-> None])],
          res |-> Ok(<<>>)]

\* InitActorState::load after get_actor answered g: the init actor's
\* ActorState and its decoded State
DecodeInit(s, g) ==
    IF ~IsSome(g.res[2])
    THEN [tree |-> g.tree, res |-> Fatal]
    ELSE LET b == get_cbor(s, g.res[2][2].state) IN
         IF ~IsSome(b) \/ b[2][1] # "init"
         THEN [tree |-> g.tree, res |-> Fatal]
         ELSE [tree |-> g.tree, res |-> Ok(<<b[2], g.res[2][2]>>)]

InitActorState_load(t, s) == DecodeInit(s, get_actor(t, INIT_ACTOR_ID))

\* lookup_id after the init actor was loaded (l): the address is resolved
\* in its address map and a hit is cached
ResolveIn(s, addr, l) ==
    IF ~IsOk(l.res) THEN l
    ELSE LET a == resolve_address(l.res[2][1], s, addr) IN
         IF ~IsOk(a) \/ ~IsSome(a[2]) THEN [tree |-> l.tree, res |-> a]
         ELSE [tree |-> [l.tree EXCEPT !.resolve_cache =
                            HistoryMap_insert(@, addr, a[2][2])],
               res |-> a]

\* lookup_id that answers an ID address only when the actor exists
lookup_id_checks_actor(t, s, addr) ==
    IF addr[1] = "ID"
    THEN [tree |-> get_actor(t, addr[2]).tree,
          res |-> IF IsSome(get_actor(t, addr[2]).res[2])
                  THEN Ok(Some(addr[2])) ELSE Ok(None)]
    ELSE IF IsSome(HistoryMap_get(t.resolve_cache, addr))
    THEN [tree |-> t, res |-> Ok(HistoryMap_get(t.resolve_cache, addr))]
    ELSE ResolveIn(s, addr, InitActorState_load(t, s))

lookup_id(t, s, addr) ==
    IF addr[1] = "ID" THEN [tree |-> t, res |-> Ok(Some(addr[2]))]
    ELSE IF IsSome(HistoryMap_get(t.resolve_cache, addr))
    THEN [tree |-> t, res |-> Ok(HistoryMap_get(t.resolve_cache, addr))]
    ELSE ResolveIn(s, addr, InitActorState_load(t, s))

\* the closures the callers pass to mutate_actor: one that changes the actor
\* and one that returns an error of its own
Mutators == {"inc_sequence", "fail"}
Mutate(f, act) ==
    IF f = "inc_sequence"
    THEN Ok([act EXCEPT !.sequence = @ + 1])
    ELSE <<"Err", "OutOfGas">>

\* maybe_mutate_actor_id that stores the loaded state before it applies f
MutateFound_sets_first(id, f, g) ==
    IF ~IsSome(g.res[2]) THEN [tree |-> g.tree, res |-> Ok(FALSE)]
    ELSE IF ~IsOk(set_actor(g.tree, id, g.res[2][2]).res)
    THEN set_actor(g.tree, id, g.res[2][2])
    ELSE IF ~IsOk(Mutate(f, g.res[2][2]))
    THEN [tree |-> set_actor(g.tree, id, g.res[2][2]).tree,
          res |-> Mutate(f, g.res[2][2])]
    ELSE [tree |-> set_actor(g.tree, id, Mutate(f, g.res[2][2])[2]).tree,
          res |-> Ok(TRUE)]

\* maybe_mutate_actor_id after get_actor answered g
MutateFound(id, f, g) ==
    IF ~IsSome(g.res[2]) THEN [tree |-> g.tree, res |-> Ok(FALSE)]
    ELSE LET m == Mutate(f, g.res[2][2]) IN
         IF ~IsOk(m) THEN [tree |-> g.tree, res |-> m]
         ELSE LET st == set_actor(g.tree, id, m[2]) IN
              IF ~IsOk(st.res) THEN st
              ELSE [tree |-> st.tree, res |-> Ok(TRUE)]

maybe_mutate_actor_id(t, id, f) == MutateFound(id, f, get_actor(t, id))

\* mutate_actor that takes a missing actor for a mutated one
MustMutate_ignore_missing(r) ==
    IF ~IsOk(r.res) THEN r
    ELSE [tree |-> r.tree, res |-> Ok(<<>>)]

\* mutate_actor after maybe_mutate_actor_id answered r: a missing actor is
\* an error
MustMutate(r) ==
    IF ~IsOk(r.res) THEN r
    ELSE IF r.res[2] THEN [tree |-> r.tree, res |-> Ok(<<>>)]
    ELSE [tree |-> r.tree, res |-> Fatal]

mutate_actor(t, id, f) == MustMutate(maybe_mutate_actor_id(t, id, f))

\* register_new_address that sets the init actor back with its old state CID
RegisterIn_keep_state(s, addr, l) ==
    IF ~IsOk(l.res)
    THEN [tree |-> l.tree, store |-> s, res |-> l.res, puts |-> 0]
    ELSE LET m == map_address_to_new_id(l.res[2][1], s, addr) IN
         IF ~IsOk(m.res)
         THEN [tree |-> l.tree, store |-> m.store, res |-> m.res, puts |-> 0]
         ELSE LET s2 == put_cbor(m.store, m.state)
                  st == set_actor(l.tree, INIT_ACTOR_ID, l.res[2][2])
              IN IF ~IsOk(st.res)
                 THEN [tree |-> st.tree, store |-> s2, res |-> st.res,
                       puts |-> 2]
                 ELSE [tree |-> st.tree, store |-> s2, res |-> m.res,
                       puts |-> 2]

\* register_new_address after the init actor was loaded (l); puts is the
\* number of blocks the call put into the store
RegisterIn(s, addr, l) ==
    IF ~IsOk(l.res)
    THEN [tree |-> l.tree, store |-> s, res |-> l.res, puts |-> 0]
    ELSE LET m == map_address_to_new_id(l.res[2][1], s, addr) IN
         IF ~IsOk(m.res)
         THEN [tree |-> l.tree, store |-> m.store, res |-> m.res, puts |-> 0]
         ELSE LET s2 == put_cbor(m.store, m.state)
                  actor == [l.res[2][2] EXCEPT !.state = Cid(m.state)]
                  st == set_actor(l.tree, INIT_ACTOR_ID, actor)
              IN IF ~IsOk(st.res)
                 THEN [tree |-> st.tree, store |-> s2, res |-> st.res,
                       puts |-> 2]
                 ELSE [tree |-> st.tree, store |-> s2, res |-> m.res,
                       puts |-> 2]

register_new_address(t, s, addr) ==
    RegisterIn(s, addr, InitActorState_load(t, s))

\* begin_transaction that looks at its flag only
begin_transaction_flag_only(t, read_only) ==
    IF read_only
    THEN [t EXCEPT !.read_only_layers = @ + 1]
    ELSE [t EXCEPT !.layers = Append(@,
              [actor_cache_height |-> history_len(t.actor_cache),
               resolve_cache_height |-> history_len(t.resolve_cache)])]

\* begin_transaction that keeps one snapshot layer for nested transactions
begin_transaction_flat(t, read_only) ==
    IF read_only \/ is_read_only(t)
    THEN [t EXCEPT !.read_only_layers = @ + 1]
    ELSE IF t.layers # <<>> THEN t
    ELSE [t EXCEPT !.layers = Append(@,
              [actor_cache_height |-> history_len(t.actor_cache),
               resolve_cache_height |-> history_len(t.resolve_cache)])]

begin_transaction(t, read_only) ==
    IF read_only \/ is_read_only(t)
    THEN [t EXCEPT !.read_only_layers = @ + 1]
    ELSE [t EXCEPT !.layers = Append(@,
              [actor_cache_height |-> history_len(t.actor_cache),
               resolve_cache_height |-> history_len(t.resolve_cache)])]

\* the discard done at the end of every transaction, inner ones too
DiscardAlways(t) ==
    [t EXCEPT !.actor_cache = discard_history(@),
              !.resolve_cache = discard_history(@)]

\* the trailing "discard the undo history when the last transaction ends"
DiscardIfIdle(t) ==
    IF ~in_transaction(t)
    THEN [t EXCEPT !.actor_cache = discard_history(@),
                   !.resolve_cache = discard_history(@)]
    ELSE t

\* end_transaction that pops a snapshot layer whenever there is one
end_transaction_pops_first(t, revert) ==
    IF is_read_only(t) /\ t.layers = <<>>
    THEN [tree |-> DiscardIfIdle([t EXCEPT !.read_only_layers = @ - 1]),
          res |-> Ok(<<>>)]
    ELSE IF t.layers = <<>>
    THEN [tree |-> t, res |-> Fatal]
    ELSE LET layer == t.layers[Len(t.layers)]
             popped == [t EXCEPT !.layers = SubSeq(@, 1, Len(@) - 1)]
             t2 == IF revert
                   THEN [popped EXCEPT
                           !.actor_cache = rollback(@, layer.actor_cache_height),
                           !.resolve_cache = rollback(@, layer.resolve_cache_height)]
                   ELSE popped
         IN [tree |-> DiscardIfIdle(t2), res |-> Ok(<<>>)]

\* end_transaction that treats an idle tree as the end of a read-only frame
end_transaction_counts_down(t, revert) ==
    IF is_read_only(t) \/ t.layers = <<>>
    THEN [tree |-> DiscardIfIdle([t EXCEPT !.read_only_layers = @ - 1]),
          res |-> Ok(<<>>)]
    ELSE LET layer == t.layers[Len(t.layers)]
             popped == [t EXCEPT !.layers = SubSeq(@, 1, Len(@) - 1)]
             t2 == IF revert
                   THEN [popped EXCEPT
                           !.actor_cache = rollback(@, layer.actor_cache_height),
                           !.resolve_cache = rollback(@, layer.resolve_cache_height)]
                   ELSE popped
         IN [tree |-> DiscardIfIdle(t2), res |-> Ok(<<>>)]

\* end_transaction whose revert undoes the whole history
end_transaction_rolls_to_zero(t, revert) ==
    IF is_read_only(t)
    THEN [tree |-> DiscardIfIdle([t EXCEPT !.read_only_layers = @ - 1]),
          res |-> Ok(<<>>)]
    ELSE IF t.layers = <<>>
    THEN [tree |-> t, res |-> Fatal]
    ELSE LET popped == [t EXCEPT !.layers = SubSeq(@, 1, Len(@) - 1)]
             t2 == IF revert
                   THEN [popped EXCEPT
                           !.actor_cache = rollback(@, 0),
                           !.resolve_cache = rollback(@, 0)]
                   ELSE popped
         IN [tree |-> DiscardIfIdle(t2), res |-> Ok(<<>>)]

\* end_transaction whose revert rolls back the actor cache only
end_transaction_keeps_resolve_cache(t, revert) ==
    IF is_read_only(t)
    THEN [tree |-> DiscardIfIdle([t EXCEPT !.read_only_layers = @ - 1]),
          res |-> Ok(<<>>)]
    ELSE IF t.layers = <<>>
    THEN [tree |-> t, res |-> Fatal]
    ELSE LET layer == t.layers[Len(t.layers)]
             popped == [t EXCEPT !.layers = SubSeq(@, 1, Len(@) - 1)]
             t2 == IF revert
                   THEN [popped EXCEPT
                           !.actor_cache = rollback(@, layer.actor_cache_height)]
                   ELSE popped
         IN [tree |-> DiscardIfIdle(t2), res |-> Ok(<<>>)]

end_transaction(t, revert) ==
    IF is_read_only(t)
    THEN [tree |-> DiscardIfIdle([t EXCEPT !.read_only_layers = @ - 1]),
          res |-> Ok(<<>>)]
    ELSE IF t.layers = <<>>
    THEN [tree |-> t, res |-> Fatal]
    ELSE LET layer == t.layers[Len(t.layers)]
             popped == [t EXCEPT !.layers = SubSeq(@, 1, Len(@) - 1)]
             t2 == IF revert
                   THEN [popped EXCEPT
                           !.actor_cache = rollback(@, layer.actor_cache_height),
                           !.resolve_cache = rollback(@, layer.resolve_cache_height)]
                   ELSE popped
         IN [tree |-> DiscardIfIdle(t2), res |-> Ok(<<>>)]

RECURSIVE WriteThrough(_, _, _, _)
\* the write of a dirty entry that leaves the HAMT entry of a deleted actor
\* in place
WriteEntry_skips_deletes(h, id, entry, bad) ==
    IF id \in bad THEN [hamt |-> h, res |-> <<"Err", "Store">>]
    ELSE IF IsSome(entry.actor)
    THEN Hamt_set(h, to_bytes(new_id(id)), entry.actor[2])
    ELSE [hamt |-> h, res |-> Hamt_delete(h, to_bytes(new_id(id))).res]

\* the write of one dirty entry into the HAMT; bad holds the ids for which
\* the store fails the HAMT while it walks to the key
WriteEntry(h, id, entry, bad) ==
    IF id \in bad THEN [hamt |-> h, res |-> <<"Err", "Store">>]
    ELSE IF IsSome(entry.actor)
    THEN Hamt_set(h, to_bytes(new_id(id)), entry.actor[2])
    ELSE Hamt_delete(h, to_bytes(new_id(id)))

\* one more HAMT write than r counts
OneMore(r) == [r EXCEPT !.writes = @ + 1]

\* the loop after the write of one entry returned w: it stops at an error
WriteRest(w, map, ids, bad) ==
    IF ~IsOk(w.res)
    THEN [hamt |-> w.hamt, map |-> map, res |-> Fatal, writes |-> 1]
    ELSE OneMore(WriteThrough(w.hamt, map, ids, bad))

\* the write-through loop that does not look at the dirty flags
WriteThrough_every_entry(h, map, ids, bad) ==
    IF ids = {} THEN [hamt |-> h, map |-> map, res |-> Ok(<<>>), writes |-> 0]
    ELSE LET id == CHOOSE i \in ids : TRUE IN
         WriteRest(WriteEntry(h, id, map[id], bad),
                   [map EXCEPT ![id].dirty = FALSE], ids \ {id}, bad)

\* the write-through loop of flush over the cache entries: a dirty entry is
\* marked clean and then written; writes counts the HAMT set and delete
\* calls made
WriteThrough(h, map, ids, bad) ==
    IF ids = {} THEN [hamt |-> h, map |-> map, res |-> Ok(<<>>), writes |-> 0]
    ELSE LET id == CHOOSE i \in ids : TRUE IN
         IF ~map[id].dirty THEN WriteThrough(h, map, ids \ {id}, bad)
         ELSE WriteRest(WriteEntry(h, id, map[id], bad),
                        [map EXCEPT ![id].dirty = FALSE], ids \ {id}, bad)

\* the end of flush: the HAMT was flushed (f); its CID is wrapped into a
\* StateRoot, which is put into the store
FlushRoot(t, w, f) ==
    IF t.version = 0
    THEN [tree |-> [t EXCEPT !.actor_cache.map = w.map, !.hamt = f.hamt],
          store |-> f.store, res |-> Ok(f.cid), puts |-> f.puts,
          writes |-> w.writes]
    ELSE [tree |-> [t EXCEPT !.actor_cache.map = w.map, !.hamt = f.hamt],
          store |-> put_cbor(f.store, StateRoot(t.version, t.info[2], f.cid)),
          res |-> Ok(Cid(StateRoot(t.version, t.info[2], f.cid))),
          puts |-> f.puts + 1, writes |-> w.writes]

\* flush after the write-through loop returned w
FlushWritten(t, s, w) ==
    IF ~IsOk(w.res)
    THEN [tree |-> [t EXCEPT !.actor_cache.map = w.map, !.hamt = w.hamt],
          store |-> s, res |-> Fatal, puts |-> 0, writes |-> w.writes]
    ELSE FlushRoot(t, w, Hamt_flush(w.hamt, s))

\* puts is the number of blocks the call put into the store, writes the
\* number of its HAMT set and delete calls; bad holds the ids for which the
\* store fails the HAMT write (none when the store is reliable)
flush(t, s, bad) ==
    IF in_transaction(t)
    THEN [tree |-> t, store |-> s, res |-> Fatal, puts |-> 0, writes |-> 0]
    ELSE FlushWritten(t, s, WriteThrough(t.hamt, t.actor_cache.map,
                                         DOMAIN t.actor_cache.map, bad))

\* for_each that decodes every key as a public-key address
for_each_as_key_address(t) ==
    {<<new_secp256k1(unleb128(Tail(kv[1]))), kv[2]>> :
        kv \in Hamt_for_each(t.hamt)}

\* the set of (address, actor state) pairs StateTree::for_each visits
for_each(t) == {<<from_bytes(kv[1]), kv[2]>> : kv \in Hamt_for_each(t.hamt)}

(* ---------------------------------------------------------------------- *)
(* The state machine: one tree, its store, and its callers                 *)
(* ---------------------------------------------------------------------- *)
VARIABLES
    tree,       \* the StateTree
    store,      \* the block store the tree owns
    ret,        \* the last call: its name, its arguments and what it returned
    steps,      \* the number of calls made so far
    frames,     \* the callers' open begin_transaction calls, oldest first:
                \* the flag passed and what the tree answered just before
    hamt,       \* a Hamt used on its own (HamtSpec)
    hmap,       \* a HistoryMap used on its own (HistorySpec)
    account     \* an ActorState used on its own (FundsSpec)

vars == <<steps, tree, store, ret, frames, hamt, hmap, account>>

\* what a caller can read from the tree: get_actor of every id and
\* lookup_id of every address
Observe(t, s) ==
    [actors |-> [id \in ActorIds |-> get_actor(t, id).res],
     ids |-> [a \in Addrs |-> lookup_id(t, s, a).res]]

\* the store of the tests: State::new_test(&store) and put_cbor(&init_state)
GenesisStore ==
    put_cbor(put_cbor({}, AddrMapNode(EmptyMap)), InitActorState_new_test)

\* the sequence numbers of the actor states the callers write
InputSeqs == {1}

\* the actor states the callers write under id: dummy accounts, and under
\* INIT_ACTOR_ID also init actors whose state block was put before
\* (tests::get_set_non_id, Tester::new)
ActorInputs(s, id) ==
    {ActorState_new(DUMMY_ACCOUNT_ACTOR_CODE_ID, EMPTY_ARR_CID, 0, q, None) :
        q \in InputSeqs}
    \cup {ActorState_new(DUMMY_INIT_ACTOR_CODE_ID, c, 0, 1, None) :
        c \in {x \in s : id = INIT_ACTOR_ID /\ BlockOf(x)[1] = "init"}}

\* the init actor of a fresh network (tests::get_set_non_id)
GenesisInitActor ==
    ActorState_new(DUMMY_INIT_ACTOR_CODE_ID, Cid(InitActorState_new_test),
                   0, 1, None)

\* the record of a call: `changed` tells whether it changed what the callers
\* can read, `scope` (end_transaction) whether the frame it ended had, `puts`
\* how many blocks it put into the store, `flushed` the CID of the last
\* successful flush if only reads were called since, `repeat` whether the
\* call is a flush that finds such a CID, `resolved` the addresses the
\* resolve cache held when the call was made, `synced` whether the tree has
\* been flushed with no successful set_actor (that of register_new_address
\* included), delete_actor or mutate_actor since
Called(op, arg, res, t2, s2, scope, puts) ==
    [op |-> op, arg |-> arg, res |-> res,
     changed |-> Observe(t2, s2) # Observe(tree, store),
     scope |-> scope, puts |-> puts,
     flushed |-> IF op = "flush" /\ IsOk(res) THEN Some(res[2])
                 ELSE IF op \in {"get_actor", "lookup_id"} THEN ret.flushed
                 ELSE None,
     repeat |-> op = "flush" /\ IsSome(ret.flushed),
     resolved |-> DOMAIN tree.resolve_cache.map,
     synced |-> IF op = "flush" /\ IsOk(res) THEN TRUE
                ELSE IF op \in {"set_actor", "delete_actor", "mutate_actor",
                                "register_new_address", "new_from_root"}
                        /\ IsOk(res) THEN FALSE
                ELSE ret.synced]

\* a fresh tree with the init actor set (Tester::new)
Init ==
    /\ store = StateTree_new(GenesisStore, V5).store
    /\ tree = set_actor(StateTree_new(GenesisStore, V5).res[2],
                        INIT_ACTOR_ID, GenesisInitActor).tree
    /\ steps = 0
    /\ ret = [op |-> "new", arg |-> <<V5>>, res |-> Ok(<<>>),
              changed |-> FALSE, scope |-> FALSE, puts |-> 1,
              flushed |-> None, repeat |-> FALSE, resolved |-> {},
              synced |-> FALSE]
    /\ frames = <<>>
    /\ hamt = Hamt_new
    /\ hmap = HistoryMap_default
    /\ account = ActorState_new_empty

\* the step of a call that returned r and left the store alone: the tree
\* after it and its result
Answers(op, arg, r) ==
    /\ tree' = r.tree
    /\ steps' = steps + 1
    /\ ret' = Called(op, arg, r.res, r.tree, store, FALSE, 0)
    /\ UNCHANGED store

\* the step of a call that returned r: the tree and the store after it, its
\* result and the number of its puts
Returns(op, arg, r) ==
    /\ tree' = r.tree
    /\ store' = r.store
    /\ steps' = steps + 1
    /\ ret' = Called(op, arg, r.res, r.tree, r.store, FALSE, r.puts)

GetActor(id) ==
    /\ steps < MaxSteps
    /\ Answers("get_actor", <<id>>, get_actor(tree, id))
    /\ UNCHANGED <<frames, hamt, hmap, account>>

SetActor(id, actor) ==
    /\ steps < MaxSteps
    /\ Answers("set_actor", <<id, actor>>, set_actor(tree, id, actor))
    /\ UNCHANGED <<frames, hamt, hmap, account>>

DeleteActor(id) ==
    /\ steps < MaxSteps
    /\ Answers("delete_actor", <<id>>, delete_actor(tree, id))
    /\ UNCHANGED <<frames, hamt, hmap, account>>

MutateActor(id, f) ==
    /\ steps < MaxSteps
    /\ Answers("mutate_actor", <<id, f>>, mutate_actor(tree, id, f))
    /\ UNCHANGED <<frames, hamt, hmap, account>>

LookupId(addr) ==
    /\ steps < MaxSteps
    /\ Answers("lookup_id", <<addr>>, lookup_id(tree, store, addr))
    /\ UNCHANGED <<frames, hamt, hmap, account>>

RegisterNewAddress(addr) ==
    /\ steps < MaxSteps
    /\ Returns("register_new_address", <<addr>>,
               register_new_address(tree, store, addr))
    /\ UNCHANGED <<frames, hamt, hmap, account>>

BeginTransaction(read_only) ==
    /\ steps < MaxSteps
    /\ tree' = begin_transaction(tree, read_only)
    /\ frames' = Append(frames, [read_only |-> read_only,
                                 obs |-> Observe(tree, store)])
    /\ steps' = steps + 1
    /\ ret' = Called("begin_transaction", <<read_only>>, Ok(<<>>),
                   begin_transaction(tree, read_only), store, FALSE, 0)
    /\ UNCHANGED <<store, hamt, hmap, account>>

EndTransaction(revert) ==
    LET r == end_transaction(tree, revert) IN
    /\ steps < MaxSteps
    /\ tree' = r.tree
    /\ frames' = IF IsOk(r.res) THEN SubSeq(frames, 1, Len(frames) - 1)
                 ELSE frames
    /\ steps' = steps + 1
    /\ ret' = Called("end_transaction", <<revert>>, r.res, r.tree, store,
                   /\ frames # <<>>
                   /\ Observe(tree, store) # frames[Len(frames)].obs,
                   0)
    /\ UNCHANGED <<store, hamt, hmap, account>>

Flush ==
    /\ steps < MaxSteps
    /\ Returns("flush", <<>>, flush(tree, store, {}))
    /\ UNCHANGED <<frames, hamt, hmap, account>>

\* the caller drops the tree and opens the root c from the same store
NewFromRoot(c) ==
    LET r == new_from_root(store, c) IN
    /\ steps < MaxSteps
    /\ IsOk(r)
    /\ tree' = r[2]
    /\ frames' = <<>>
    /\ steps' = steps + 1
    /\ ret' = Called("new_from_root", <<c>>, Ok(<<>>), r[2], store, FALSE, 0)
    /\ UNCHANGED <<store, hamt, hmap, account>>

Next ==
    \/ \E id \in ActorIds : GetActor(id)
    \/ \E id \in ActorIds : \E actor \in ActorInputs(store, id) : SetActor(id, actor)
    \/ \E id \in ActorIds : DeleteActor(id)
    \/ \E id \in ActorIds : \E f \in Mutators : MutateActor(id, f)
    \/ \E addr \in Addrs : LookupId(addr)
    \/ \E addr \in SecpAddrs : RegisterNewAddress(addr)
    \/ \E read_only \in BOOLEAN : BeginTransaction(read_only)
    \/ \E revert \in BOOLEAN : EndTransaction(revert)
    \/ Flush
    \/ \E c \in store : NewFromRoot(c)

Spec == Init /\ [][Next]_vars

(* ---------------------------------------------------------------------- *)
(* The state machine of a Hamt used on its own: one Hamt<_, V, BytesKey>,  *)
(* its store, and its callers (the doc tests of hamt.rs)                   *)
(* ---------------------------------------------------------------------- *)
\* the keys the callers use: all in one root slot; 1 and 9 have the same
\* hash, 5 differs from them in the third hash bit
HamtKeys == {<<1>>, <<5>>, <<9>>}
\* the values the callers use
HamtValues == {"a", "b"}

\* the record of a call on the Hamt
HamtCalled(op, arg, res, puts) ==
    [op |-> op, arg |-> arg, res |-> res, changed |-> FALSE, scope |-> FALSE,
     puts |-> puts,
     flushed |-> IF op = "flush" /\ IsOk(res) THEN Some(res[2])
                 ELSE IF op \in {"get", "contains_key"} THEN ret.flushed
                 ELSE None,
     repeat |-> op = "flush" /\ IsSome(ret.flushed)]

\* Hamt::new over a store that holds one block that is no trie node
HamtInit ==
    /\ hamt = Hamt_new
    /\ store = put_cbor({}, StateInfo0)
    /\ steps = 0
    /\ ret = [op |-> "new", arg |-> <<>>, res |-> Ok(<<>>), changed |-> FALSE,
              scope |-> FALSE, puts |-> 0, flushed |-> None,
              repeat |-> FALSE]
    /\ tree = <<>>
    /\ frames = <<>>
    /\ hmap = HistoryMap_default
    /\ account = ActorState_new_empty

HamtSet(k, v) ==
    LET r == Hamt_set(hamt, k, v) IN
    /\ steps < MaxHamtCalls
    /\ hamt' = r.hamt
    /\ steps' = steps + 1
    /\ ret' = HamtCalled("set", <<k, v>>, r.res, 0)
    /\ UNCHANGED <<tree, store, frames, hmap, account>>

HamtSetIfAbsent(k, v) ==
    LET r == Hamt_set_if_absent(hamt, k, v) IN
    /\ steps < MaxHamtCalls
    /\ hamt' = r.hamt
    /\ steps' = steps + 1
    /\ ret' = HamtCalled("set_if_absent", <<k, v>>, r.res, 0)
    /\ UNCHANGED <<tree, store, frames, hmap, account>>

HamtGet(k) ==
    /\ steps < MaxHamtCalls
    /\ steps' = steps + 1
    /\ ret' = HamtCalled("get", <<k>>, Ok(Hamt_get(hamt, k)), 0)
    /\ UNCHANGED <<tree, store, frames, hamt, hmap, account>>

HamtContainsKey(k) ==
    /\ steps < MaxHamtCalls
    /\ steps' = steps + 1
    /\ ret' = HamtCalled("contains_key", <<k>>, Ok(Hamt_contains_key(hamt, k)), 0)
    /\ UNCHANGED <<tree, store, frames, hamt, hmap, account>>

HamtDelete(k) ==
    LET r == Hamt_delete(hamt, k) IN
    /\ steps < MaxHamtCalls
    /\ hamt' = r.hamt
    /\ steps' = steps + 1
    /\ ret' = HamtCalled("delete", <<k>>, r.res, 0)
    /\ UNCHANGED <<tree, store, frames, hmap, account>>

HamtFlush ==
    LET r == Hamt_flush(hamt, store) IN
    /\ steps < MaxHamtCalls
    /\ hamt' = r.hamt
    /\ store' = r.store
    /\ steps' = steps + 1
    /\ ret' = HamtCalled("flush", <<>>, Ok(r.cid), r.puts)
    /\ UNCHANGED <<tree, frames, hmap, account>>

\* the caller opens the root c from the same store and, if that succeeds,
\* goes on with the loaded Hamt
HamtLoad(c) ==
    LET r == Hamt_load(store, c) IN
    /\ steps < MaxHamtCalls
    /\ hamt' = IF IsOk(r) THEN r[2] ELSE hamt
    /\ steps' = steps + 1
    /\ ret' = HamtCalled("load", <<c>>, IF IsOk(r) THEN Ok(<<>>) ELSE r, 0)
    /\ UNCHANGED <<tree, store, frames, hmap, account>>

\* the CIDs the callers load: those of the store, and the CID of the empty
\* trie whether or not it was flushed
LoadInputs(s) == s \cup {Cid(ActorsNode(Node_default))}

HamtNext ==
    \/ \E k \in HamtKeys : \E v \in HamtValues : HamtSet(k, v)
    \/ \E k \in HamtKeys : \E v \in HamtValues : HamtSetIfAbsent(k, v)
    \/ \E k \in HamtKeys : HamtGet(k)
    \/ \E k \in HamtKeys : HamtContainsKey(k)
    \/ \E k \in HamtKeys : HamtDelete(k)
    \/ HamtFlush
    \/ \E c \in LoadInputs(store) : HamtLoad(c)

HamtSpec == HamtInit /\ [][HamtNext]_vars

(* ---------------------------------------------------------------------- *)
(* The state machine of the construction of trees: a store of blocks, some *)
(* written by older versions, and the callers of new and new_from_root     *)
(* (tests::unsupported_versions)                                           *)
(* ---------------------------------------------------------------------- *)
\* the state root an empty tree of this version flushes to
EmptyRoot(version) ==
    Cid(StateRoot(version, Cid(StateInfo0), Cid(ActorsNode(Node_default))))

\* the CIDs the stores may hold and the callers open
OpenCids ==
    {Cid(StateInfo0), Cid(ActorsNode(Node_default))}
    \cup {EmptyRoot(version) : version \in Versions}

OpenInit ==
    /\ store \in SUBSET OpenCids
    /\ tree = <<>>
    /\ steps = 0
    /\ ret = [op |-> "none", arg |-> <<>>, res |-> Ok(<<>>), changed |-> FALSE,
              scope |-> FALSE, puts |-> 0, flushed |-> None,
              repeat |-> FALSE]
    /\ frames = <<>>
    /\ hamt = Hamt_new
    /\ hmap = HistoryMap_default
    /\ account = ActorState_new_empty

\* the record of a construction
Opened(op, arg, res, puts) ==
    [op |-> op, arg |-> arg, res |-> IF IsOk(res) THEN Ok(<<>>) ELSE res,
     changed |-> FALSE, scope |-> FALSE, puts |-> puts, flushed |-> None,
     repeat |-> FALSE]

\* StateTree::new(store, version); the caller keeps the tree if there is one
NewTree(version) ==
    LET r == StateTree_new(store, version) IN
    /\ steps < MaxOpens
    /\ tree' = IF IsOk(r.res) THEN r.res[2] ELSE tree
    /\ store' = r.store
    /\ steps' = steps + 1
    /\ ret' = Opened("new", <<version>>, r.res, IF IsOk(r.res) THEN 1 ELSE 0)
    /\ UNCHANGED <<frames, hamt, hmap, account>>

\* StateTree::new_from_root(store, c); the caller keeps the tree if there is
\* one
OpenRoot(c) ==
    LET r == new_from_root(store, c) IN
    /\ steps < MaxOpens
    /\ tree' = IF IsOk(r) THEN r[2] ELSE tree
    /\ steps' = steps + 1
    /\ ret' = Opened("new_from_root", <<c>>, r, 0)
    /\ UNCHANGED <<store, frames, hamt, hmap, account>>

\* flush of the tree the caller holds; the result keeps the root CID
OpenFlush ==
    /\ steps < MaxOpens
    /\ tree # <<>>
    /\ tree' = flush(tree, store, {}).tree
    /\ store' = flush(tree, store, {}).store
    /\ steps' = steps + 1
    /\ ret' = [op |-> "flush", arg |-> <<>>,
               res |-> flush(tree, store, {}).res,
               changed |-> FALSE, scope |-> FALSE,
               puts |-> flush(tree, store, {}).puts,
               flushed |-> None, repeat |-> FALSE]
    /\ UNCHANGED <<frames, hamt, hmap, account>>

OpenNext ==
    \/ \E version \in Versions : NewTree(version)
    \/ \E c \in OpenCids : OpenRoot(c)
    \/ OpenFlush

OpenSpec == OpenInit /\ [][OpenNext]_vars

(* ---------------------------------------------------------------------- *)
(* The state machine of address registration: the tree of Init and callers *)
(* that register and look up several key addresses, inside and outside     *)
(* transactions (tests::get_set_non_id).                                   *)
(* ---------------------------------------------------------------------- *)
\* the non-ID addresses these callers use
RegAddrs == {new_secp256k1(1), new_secp256k1(2), new_secp256k1(3)}

RegNext ==
    \/ \E addr \in RegAddrs : RegisterNewAddress(addr)
    \/ \E addr \in RegAddrs : LookupId(addr)
    \/ \E read_only \in BOOLEAN : BeginTransaction(read_only)
    \/ \E revert \in BOOLEAN : EndTransaction(revert)

RegSpec == Init /\ [][RegNext]_vars

(* ---------------------------------------------------------------------- *)
(* The state machine of a tree over a store that can fail: the tree of     *)
(* Init, callers that write actors, and flushes during which the store     *)
(* fails the HAMT writes of some ids.                                      *)
(* ---------------------------------------------------------------------- *)
FlushFailing(bad) ==
    /\ steps < MaxSteps
    /\ Returns("flush", <<bad>>, flush(tree, store, bad))
    /\ UNCHANGED <<frames, hamt, hmap, account>>

FaultNext ==
    \/ \E id \in ActorIds : \E actor \in ActorInputs(store, id) : SetActor(id, actor)
    \/ \E id \in ActorIds : DeleteActor(id)
    \/ \E id \in ActorIds : GetActor(id)
    \/ \E bad \in SUBSET ActorIds : FlushFailing(bad)

FaultSpec == Init /\ [][FaultNext]_vars

(* ---------------------------------------------------------------------- *)
(* The state machine of a HistoryMap used on its own: a                    *)
(* HistoryMap<i32, &str> and its callers (tests::history_map).             *)
(* ---------------------------------------------------------------------- *)
HistoryKeys == {1, 2}
HistoryValues == {"foo", "bar"}
\* what the closure passed to get_or_try_insert_with does when it is called:
\* it returns a value, returns an error, or panics
Closures ==
    {Ok(v) : v \in HistoryValues} \cup {<<"Err", "err">>, <<"Panic">>}

\* the record of a call: `before` is the map before the call; past[h + 1] is
\* the contents the map had when history_len() was h, for every h up to the
\* present length, since the history was last empty or cut
HistoryCalled(op, arg, res, past) ==
    [op |-> op, arg |-> arg, res |-> res, before |-> hmap, past |-> past]

\* HistoryMap::default
HistoryInit ==
    /\ hmap = HistoryMap_default
    /\ steps = 0
    /\ ret = [op |-> "default", arg |-> <<>>, res |-> Ok(<<>>),
              before |-> HistoryMap_default, past |-> <<EmptyMap>>]
    /\ tree = <<>>
    /\ store = {}
    /\ frames = <<>>
    /\ hamt = Hamt_new
    /\ account = ActorState_new_empty

\* the step of a call that left the HistoryMap hm2 and returned res; after a
\* panic of the closure there are no more calls
HistoryStep(op, arg, res, hm2, past) ==
    /\ steps < MaxHistoryCalls
    /\ ret.res[1] # "Panic"
    /\ hmap' = hm2
    /\ steps' = steps + 1
    /\ ret' = HistoryCalled(op, arg, res, past)
    /\ UNCHANGED <<tree, store, frames, hamt, account>>

\* past after a call that left hm2: a longer history adds the new contents,
\* a shorter one cuts the contents above its length
PastAfter(hm2) ==
    IF history_len(hm2) >= Len(ret.past)
    THEN Append(ret.past, hm2.map)
    ELSE SubSeq(ret.past, 1, history_len(hm2) + 1)

HistoryInsert(k, v) ==
    HistoryStep("insert", <<k, v>>, Ok(<<>>), HistoryMap_insert(hmap, k, v),
                PastAfter(HistoryMap_insert(hmap, k, v)))

HistoryGet(k) ==
    HistoryStep("get", <<k>>, Ok(HistoryMap_get(hmap, k)), hmap, ret.past)

\* the step of get_or_try_insert_with that answered r
HistoryInserted(k, f, r) ==
    HistoryStep("get_or_try_insert_with", <<k, f>>, r.res, r.hm,
                PastAfter(r.hm))

HistoryGetOrTryInsertWith(k, f) ==
    HistoryInserted(k, f, get_or_try_insert_with(hmap, k, f))

HistoryRollback(height) ==
    HistoryStep("rollback", <<height>>, Ok(<<>>), rollback(hmap, height),
                SubSeq(ret.past, 1,
                       IF height < history_len(hmap) THEN height + 1
                       ELSE Len(ret.past)))

HistoryLen ==
    HistoryStep("history_len", <<>>, Ok(history_len(hmap)), hmap, ret.past)

HistoryDiscard ==
    HistoryStep("discard_history", <<>>, Ok(<<>>), discard_history(hmap),
                <<hmap.map>>)

HistoryNext ==
    \/ \E k \in HistoryKeys : \E v \in HistoryValues : HistoryInsert(k, v)
    \/ \E k \in HistoryKeys : HistoryGet(k)
    \/ \E k \in HistoryKeys : \E f \in Closures :
          HistoryGetOrTryInsertWith(k, f)
    \/ \E height \in 0..(history_len(hmap) + 1) : HistoryRollback(height)
    \/ HistoryLen
    \/ HistoryDiscard

HistorySpec == HistoryInit /\ [][HistoryNext]_vars

(* ---------------------------------------------------------------------- *)
(* The state machine of an ActorState used on its own: an account and the  *)
(* callers that deposit and deduct funds.                                  *)
(* ---------------------------------------------------------------------- *)
\* the TokenAmounts the callers pass: TokenAmount is signed
Amounts == (-2)..3
\* the balances the account is created with
Balances == 0..2

\* ActorState::new with a balance that is not negative
FundsInit ==
    /\ account \in {ActorState_new(DUMMY_ACCOUNT_ACTOR_CODE_ID, EMPTY_ARR_CID,
                                    b, 0, None) : b \in Balances}
    /\ steps = 0
    /\ ret = [op |-> "new", arg |-> <<>>, res |-> Ok(<<>>), before |-> 0]
    /\ tree = <<>>
    /\ store = {}
    /\ frames = <<>>
    /\ hamt = Hamt_new
    /\ hmap = HistoryMap_default

\* the step of a call that left the ActorState act2 and returned res;
\* `before` is the balance before the call
FundsStep(op, arg, res, act2) ==
    /\ steps < MaxFundsCalls
    /\ account' = act2
    /\ steps' = steps + 1
    /\ ret' = [op |-> op, arg |-> arg, res |-> res,
               before |-> account.balance]
    /\ UNCHANGED <<tree, store, frames, hamt, hmap>>

\* the step of deduct_funds that answered r
Deducted(amt, r) == FundsStep("deduct_funds", <<amt>>, r.res, r.actor)

DeductFunds(amt) == Deducted(amt, deduct_funds(account, amt))

DepositFunds(amt) ==
    FundsStep("deposit_funds", <<amt>>, Ok(<<>>), deposit_funds(account, amt))

FundsNext ==
    \/ \E amt \in Amounts : DeductFunds(amt)
    \/ \E amt \in Amounts : DepositFunds(amt)

FundsSpec == FundsInit /\ [][FundsNext]_vars

(* ---------------------------------------------------------------------- *)
(* Properties                                                              *)
(* ---------------------------------------------------------------------- *)
\* this step is a call of op
StepOf(op) == steps' = steps + 1 /\ ret'.op = op

\* what get_actor answers for every id
Actors(t) == [id \in ActorIds |-> get_actor(t, id).res]

\* some open frame was begun with read_only = true
ReadOnlyFrameOpen(fs) == \E i \in DOMAIN fs : fs[i].read_only

\* the tree with both caches rolled back to the heights of snapshot layer i
RolledBackTo(t, i) ==
    [t EXCEPT !.actor_cache = rollback(@, t.layers[i].actor_cache_height),
              !.resolve_cache = rollback(@, t.layers[i].resolve_cache_height)]

\* the tree new_from_root opens from the root a flush returned
Reloaded(s, res) == new_from_root(s, res[2])

\* C1: a frame opened with begin_transaction(false) and ended with
\* end_transaction(true) leaves get_actor of every id and lookup_id of every
\* address as they were immediately before the begin.
C1_RollbackCorrectness ==
    [][(/\ StepOf("end_transaction")
        /\ ret'.arg = <<TRUE>>
        /\ IsOk(ret'.res)
        /\ ~frames[Len(frames)].read_only)
       => Observe(tree', store') = frames[Len(frames)].obs]_vars

\* C1 witness: a reverting end_transaction ended a begin(false) frame in
\* which the answers of the tree had changed, and changed them back.
C1_Witness ==
    /\ ret.op = "end_transaction"
    /\ ret.arg = <<TRUE>>
    /\ IsOk(ret.res)
    /\ ret.scope
    /\ ret.changed

\* C2: at every moment, rolling the caches back to the heights of any open
\* snapshot layer gives back the answers the tree gave before that layer's
\* begin, also after inner transactions ended with revert = false: an inner
\* end never discards undo history an enclosing layer needs.
C2_OuterRevertCoversInner ==
    \A i \in 1..Len(tree.layers) :
        /\ i <= Len(frames)
        /\ Observe(RolledBackTo(tree, i), store) = frames[i].obs

\* C2 witness: an inner transaction that changed the answers of the tree has
\* ended with revert = false while an enclosing snapshot layer is open.
C2_Witness ==
    /\ ret.op = "end_transaction"
    /\ ret.arg = <<FALSE>>
    /\ IsOk(ret.res)
    /\ ret.scope
    /\ Len(tree.layers) >= 1
    /\ Observe(tree, store) # frames[Len(tree.layers)].obs

\* C3: end_transaction(false) keeps what get_actor answers for every id, a
\* following successful flush keeps it too, and the tree new_from_root opens
\* from the flushed root answers the same.
C3_TransactionCommit ==
    [][/\ (StepOf("end_transaction") /\ ret'.arg = <<FALSE>> /\ IsOk(ret'.res))
            => Actors(tree') = Actors(tree)
       /\ (StepOf("flush") /\ IsOk(ret'.res))
            => /\ Actors(tree') = Actors(tree)
               /\ IsOk(Reloaded(store', ret'.res))
               /\ Actors(Reloaded(store', ret'.res)[2]) = Actors(tree)]_vars

\* C3 witness: the outermost transaction ended with revert = false after
\* set_actor calls inside it, whose entries wait for the flush.
C3_Witness ==
    /\ ret.op = "end_transaction"
    /\ ret.arg = <<FALSE>>
    /\ IsOk(ret.res)
    /\ ret.scope
    /\ frames = <<>>
    /\ \E id \in DOMAIN tree.actor_cache.map :
          /\ tree.actor_cache.map[id].dirty
          /\ IsSome(tree.actor_cache.map[id].actor)

\* C4: right after a successful flush, the tree opened with new_from_root
\* from the returned root visits under for_each the same (address, actor
\* state) pairs as the flushed tree, and get_actor agrees on every id.
C4_RoundTrip ==
    (ret.op = "flush" /\ IsOk(ret.res))
    => /\ IsOk(Reloaded(store, ret.res))
       /\ for_each(Reloaded(store, ret.res)[2]) = for_each(tree)
       /\ Actors(Reloaded(store, ret.res)[2]) = Actors(tree)

\* C4 witness: a flush succeeded on a tree holding actors, one of them
\* under the address ID(2).
C4_Witness ==
    /\ ret.op = "flush"
    /\ IsOk(ret.res)
    /\ \E kv \in for_each(tree) : kv[1] = new_id(2)

\* C5: a successful set_actor(id, s) makes get_actor(id) answer Some(s),
\* whatever was cached or stored for id before; the answer for id then stays
\* until a set_actor, delete_actor, mutate_actor or register_new_address
\* writes id, a reverting end_transaction or a reopening of the tree.
C5_CacheCoherence ==
    [][/\ (StepOf("set_actor") /\ IsOk(ret'.res))
            => /\ get_actor(tree', ret'.arg[1]).res = Ok(Some(ret'.arg[2]))
               /\ \A id \in ActorIds \ {ret'.arg[1]} :
                     get_actor(tree', id).res = get_actor(tree, id).res
       /\ ((StepOf("delete_actor") \/ StepOf("mutate_actor")))
            => \A id \in ActorIds \ {ret'.arg[1]} :
                     get_actor(tree', id).res = get_actor(tree, id).res
       /\ (\/ StepOf("get_actor") \/ StepOf("lookup_id")
           \/ StepOf("begin_transaction") \/ StepOf("flush")
           \/ (StepOf("end_transaction") /\ ret'.arg = <<FALSE>>))
            => Actors(tree') = Actors(tree)
       /\ StepOf("register_new_address")
            => \A id \in ActorIds \ {INIT_ACTOR_ID} :
                     get_actor(tree', id).res = get_actor(tree, id).res]_vars

\* C5 witness: a set_actor succeeded on an id whose cache entry held a
\* different written state (the undo record keeps the overwritten entry).
C5_Witness ==
    /\ ret.op = "set_actor"
    /\ IsOk(ret.res)
    /\ \E i \in DOMAIN tree.actor_cache.history :
          /\ tree.actor_cache.history[i][1] = ret.arg[1]
          /\ IsSome(tree.actor_cache.history[i][2])
          /\ tree.actor_cache.history[i][2][2].dirty
          /\ tree.actor_cache.history[i][2][2].actor # Some(ret.arg[2])
    /\ get_actor(tree, ret.arg[1]).res = Ok(Some(ret.arg[2]))

\* C6: delete_actor on a writable tree returns Ok whether or not the actor
\* exists and makes get_actor(id) answer None; after a later successful flush
\* the tree reopened from the root answers None for every id the flushed tree
\* answers None for, also when the HAMT held the actor before.
C6_Delete ==
    [][/\ (StepOf("delete_actor") /\ ~is_read_only(tree))
            => /\ IsOk(ret'.res)
               /\ get_actor(tree', ret'.arg[1]).res = Ok(None)
       /\ (StepOf("flush") /\ IsOk(ret'.res))
            => \A id \in ActorIds :
                  get_actor(tree, id).res = Ok(None)
                  => get_actor(Reloaded(store', ret'.res)[2], id).res = Ok(None)]_vars

\* C6 witness: a flush succeeded after the deletion of an actor that an
\* earlier flush had written into the HAMT.
C6_Witness ==
    /\ ret.op = "flush"
    /\ IsOk(ret.res)
    /\ \E id \in DOMAIN tree.actor_cache.map :
          /\ tree.actor_cache.map[id].actor = None
          /\ \E c \in store :
                /\ BlockOf(c)[1] = "actors"
                /\ IsSome(Node_get(BlockOf(c)[2], to_bytes(new_id(id))))
          /\ get_actor(Reloaded(store, ret.res)[2], id).res = Ok(None)

\* C7: on a read-only tree set_actor and delete_actor return the recoverable
\* ReadOnly error and leave the tree (cache maps, histories, snapshot layers,
\* read_only_layers) and the store as they were.
C7_ReadOnlyRejectsSetDelete ==
    [][((StepOf("set_actor") \/ StepOf("delete_actor")) /\ is_read_only(tree))
       => /\ ret'.res = ReadOnly
          /\ tree' = tree
          /\ store' = store]_vars

\* C7 witness: set_actor or delete_actor was called on a read-only tree.
C7_Witness ==
    /\ ret.op \in {"set_actor", "delete_actor"}
    /\ is_read_only(tree)
    /\ ret.res = ReadOnly

\* C8: the tree is read-only exactly while a frame begun with read_only =
\* true is open, whatever frames were begun and ended above it, and
\* set_actor succeeds exactly when no such frame is open.
C8_OuterReadOnlyIsGlobal ==
    [][/\ is_read_only(tree') <=> ReadOnlyFrameOpen(frames')
       /\ StepOf("set_actor")
            => (IsOk(ret'.res) <=> ~ReadOnlyFrameOpen(frames))]_vars

\* C8 witness: set_actor was rejected inside a begin_transaction(false)
\* frame that is nested in a read-only frame.
C8_Witness ==
    /\ ret.op = "set_actor"
    /\ ret.res = ReadOnly
    /\ Len(frames) = 2
    /\ frames[1].read_only
    /\ ~frames[2].read_only

\* C9: register_new_address on a read-only tree (whose init actor can be
\* loaded) returns ReadOnly, makes no actor-cache entry dirty, keeps what
\* get_actor answers for the init actor and writes no block to the store.
C9_ReadOnlyRegisterChangesNothing ==
    [][(/\ StepOf("register_new_address")
        /\ is_read_only(tree)
        /\ IsOk(InitActorState_load(tree, store).res))
       => /\ ret'.res = ReadOnly
          /\ \A id \in DOMAIN tree'.actor_cache.map :
                tree'.actor_cache.map[id].dirty
                => (id \in DOMAIN tree.actor_cache.map
                    /\ tree.actor_cache.map[id].dirty)
          /\ get_actor(tree', INIT_ACTOR_ID).res
                = get_actor(tree, INIT_ACTOR_ID).res
          /\ store' = store]_vars

\* C10 as stated: flush on a read-only tree returns the recoverable ReadOnly
\* error.
C10_FlushReadOnlyIsRecoverable ==
    [][(StepOf("flush") /\ is_read_only(tree)) => ret'.res = ReadOnly]_vars

\* C10 amended: flush on a read-only tree is rejected by the in_transaction
\* check with a fatal error and changes neither the tree nor the store.
C10_FlushReadOnlyIsFatal ==
    [][(StepOf("flush") /\ is_read_only(tree))
       => /\ ret'.res = Fatal
          /\ tree' = tree
          /\ store' = store]_vars

\* C10 witness: flush was called on a read-only tree.
C10_Witness ==
    /\ ret.op = "flush"
    /\ is_read_only(tree)
    /\ ~IsOk(ret.res)

\* a snapshot layer or a read-only frame of the tree is open
InsideTransaction(t) == Len(t.layers) > 0 \/ t.read_only_layers > 0

\* some actor-cache entry is dirty
SomeDirty(t) ==
    \E id \in DOMAIN t.actor_cache.map : t.actor_cache.map[id].dirty

\* C11: flush is allowed only outside every transaction: while a snapshot
\* layer or a read-only frame is open it returns a fatal error, clears no
\* dirty flag, leaves the HAMT and the rest of the tree as they were and puts
\* nothing into the store; outside every transaction it is not rejected.
C11_FlushOnlyWhenIdle ==
    [][StepOf("flush")
       => IF InsideTransaction(tree)
          THEN /\ ret'.res = Fatal
               /\ tree' = tree
               /\ store' = store
               /\ ret'.puts = 0
          ELSE IsOk(ret'.res)]_vars

\* C11 witness: flush was rejected inside a snapshot layer of a writable
\* tree that holds a dirty entry.
C11_Witness ==
    /\ ret.op = "flush"
    /\ ret.res = Fatal
    /\ tree.layers # <<>>
    /\ ~is_read_only(tree)
    /\ SomeDirty(tree)

\* C12 as stated: a flush that follows a successful flush with only reads in
\* between returns the same root CID and puts no block into the store.
C12_SecondFlushWritesNothing ==
    [][(StepOf("flush") /\ IsSome(ret.flushed))
       => /\ ret'.res = Ok(ret.flushed[2])
          /\ ret'.puts = 0]_vars

\* C12 amended: a flush that follows a successful flush with only reads in
\* between returns the same root CID, leaves the HAMT and the contents of
\* the store as they were, and puts exactly one block, the StateRoot block
\* that is already there.
C12_IdempotentFlush ==
    [][(StepOf("flush") /\ IsSome(ret.flushed))
       => /\ ret'.res = Ok(ret.flushed[2])
          /\ tree'.hamt = tree.hamt
          /\ store' = store
          /\ ret'.puts = 1
          /\ ret'.res[2] \in store]_vars

\* C12 witness: a flush succeeded that follows a successful flush of a tree
\* with actors, with only reads in between.
C12_Witness ==
    /\ ret.repeat
    /\ IsOk(ret.res)
    /\ ~Hamt_is_empty(tree.hamt)

\* C13: an end_transaction that returns Ok and leaves the tree outside every
\* transaction leaves both caches with history_len() = 0; the discard keeps
\* the cache maps: they are the maps before the call, or, for a reverted
\* snapshot layer, the maps rolled back to the layer's heights.
C13_HistoryDiscard ==
    [][(StepOf("end_transaction") /\ IsOk(ret'.res) /\ ~InsideTransaction(tree'))
       => /\ history_len(tree'.actor_cache) = 0
          /\ history_len(tree'.resolve_cache) = 0
          /\ IF ret'.arg = <<TRUE>> /\ ~is_read_only(tree)
             THEN /\ tree'.actor_cache.map
                       = rollback(tree.actor_cache,
                                  tree.layers[1].actor_cache_height).map
                  /\ tree'.resolve_cache.map
                       = rollback(tree.resolve_cache,
                                  tree.layers[1].resolve_cache_height).map
             ELSE /\ tree'.actor_cache.map = tree.actor_cache.map
                  /\ tree'.resolve_cache.map = tree.resolve_cache.map]_vars

\* C13 witness: the outermost transaction has ended, the histories are empty
\* and both cache maps still hold entries made inside it.
C13_Witness ==
    /\ ret.op = "end_transaction"
    /\ IsOk(ret.res)
    /\ ret.scope
    /\ ~InsideTransaction(tree)
    /\ history_len(tree.actor_cache) = 0
    /\ history_len(tree.resolve_cache) = 0
    /\ DOMAIN tree.resolve_cache.map # {}
    /\ SomeDirty(tree)

RECURSIVE Build(_, _)
\* the trie that holds the pairs, made by inserting them one by one into n
Build(n, pairs) ==
    IF pairs = {} THEN n
    ELSE LET kv == CHOOSE x \in pairs : TRUE IN
         Build(Node_set(n, kv[1], kv[2], TRUE).node, pairs \ {kv})

\* the CID of the trie of a fresh Hamt into which the pairs were inserted
CanonicalCid(pairs) == Cid(ActorsNode(Build(Node_default, pairs)))

C15_FlushedCidInvariant ==
    [][/\ IsSome(hamt'.flushed_cid)
            => hamt'.flushed_cid[2] = Cid(ActorsNode(hamt'.root))
       /\ ((StepOf("set") \/ StepOf("set_if_absent") \/ StepOf("delete"))
            /\ hamt'.root # hamt.root)
            => hamt'.flushed_cid = None
       /\ (StepOf("set_if_absent") /\ ret'.res = Ok(TRUE))
            => hamt'.flushed_cid = None
       /\ (StepOf("delete") /\ IsSome(ret'.res[2]))
            => hamt'.flushed_cid = None
       /\ (StepOf("flush") /\ IsSome(hamt.flushed_cid))
            => /\ ret'.res = Ok(hamt.flushed_cid[2])
               /\ ret'.puts = 0
               /\ store' = store
               /\ hamt' = hamt]_vars

\* C15 witness: a flush of a Hamt with pairs returned the CID remembered
\* from the flush before, with only reads in between.
C15_Witness ==
    /\ ret.op = "flush"
    /\ ret.repeat
    /\ ret.puts = 0
    /\ ~Hamt_is_empty(hamt)
    /\ hamt.flushed_cid = Some(ret.res[2])

\* C16: load of a CID the store has no block for fails with CidNotFound; a
\* load that succeeds gives a Hamt whose flushed_cid is the CID, and a flush
\* called on it before any mutation returns that CID and puts nothing into
\* the store.
C16_Load ==
    [][/\ StepOf("load")
            => /\ ret'.arg[1] \notin store => ret'.res = <<"Err", "CidNotFound">>
               /\ IsOk(ret'.res)
                    => /\ ret'.arg[1] \in store
                       /\ hamt'.flushed_cid = Some(ret'.arg[1])
       /\ (StepOf("flush") /\ ret.op = "load" /\ IsOk(ret.res))
            => /\ ret'.res = Ok(ret.arg[1])
               /\ ret'.puts = 0
               /\ store' = store]_vars

\* C16 witness: the flush called right after a successful load of a trie
\* with pairs returned the loaded CID.
C16_Witness ==
    /\ ret.op = "flush"
    /\ ~ret.repeat
    /\ ret.puts = 0
    /\ ~Hamt_is_empty(hamt)
    /\ ret.res[2] \in store
    /\ IsOk(Hamt_load(store, ret.res[2]))

\* C17: a set(k, v) that succeeds returns Some(previous value) exactly when
\* k was present, and None otherwise; afterwards get(k) is v and every other
\* key has the value it had; the Hamt is then the one that delete(k)
\* followed by set(k, v) gives: same pairs, same root, same flushed CID.
C17_Set ==
    [][(StepOf("set") /\ IsOk(ret'.res))
       => LET k == ret'.arg[1]
              v == ret'.arg[2]
              d == Hamt_set(Hamt_delete(hamt, k).hamt, k, v).hamt
          IN /\ ret'.res = Ok(Hamt_get(hamt, k))
             /\ IsSome(ret'.res[2]) <=> Hamt_contains_key(hamt, k)
             /\ Hamt_get(hamt', k) = Some(v)
             /\ \A x \in HamtKeys \ {k} : Hamt_get(hamt', x) = Hamt_get(hamt, x)
             /\ Hamt_for_each(hamt') = Hamt_for_each(d)
             /\ hamt'.root = d.root
             /\ Hamt_flush(hamt', store').cid = Hamt_flush(d, store').cid]_vars

\* C17 witness: a set replaced the different value of a key in a trie that
\* holds other keys too.
C17_Witness ==
    /\ ret.op = "set"
    /\ IsOk(ret.res)
    /\ IsSome(ret.res[2])
    /\ ret.res[2] # Some(ret.arg[2])
    /\ Cardinality(Hamt_for_each(hamt)) > 1

\* C18: a set_if_absent(k, v) that succeeds returns true exactly when k was
\* absent, and then get(k) is v; when k was present it returns false and
\* leaves the Hamt, the stored value and flushed_cid included, as it was.
C18_SetIfAbsent ==
    [][(StepOf("set_if_absent") /\ IsOk(ret'.res))
       => LET k == ret'.arg[1]
              v == ret'.arg[2]
          IN /\ ret'.res[2] <=> ~Hamt_contains_key(hamt, k)
             /\ ret'.res[2] => Hamt_get(hamt', k) = Some(v)
             /\ ~ret'.res[2] => hamt' = hamt
             /\ \A x \in HamtKeys \ {k} : Hamt_get(hamt', x) = Hamt_get(hamt, x)]_vars

\* C18 witness: set_if_absent returned false for a key that holds another
\* value, on a Hamt that remembers its flushed CID.
C18_Witness ==
    /\ ret.op = "set_if_absent"
    /\ ret.res = Ok(FALSE)
    /\ IsSome(hamt.flushed_cid)
    /\ IsSome(Hamt_get(hamt, ret.arg[1]))
    /\ Hamt_get(hamt, ret.arg[1]) # Some(ret.arg[2])

\* C19: delete(k) returns Some((k, v)) exactly when k was present with value
\* v, and then get(k) is None and contains_key(k) is false; delete of an
\* absent key returns None and leaves the trie and flushed_cid as they were.
C19_Delete ==
    [][StepOf("delete")
       => LET k == ret'.arg[1] IN
          /\ ret'.res = Ok(IF Hamt_contains_key(hamt, k)
                           THEN Some(<<k, Hamt_get(hamt, k)[2]>>)
                           ELSE None)
          /\ Hamt_get(hamt', k) = None
          /\ ~Hamt_contains_key(hamt', k)
          /\ \A x \in HamtKeys \ {k} : Hamt_get(hamt', x) = Hamt_get(hamt, x)
          /\ ~Hamt_contains_key(hamt, k) => hamt' = hamt]_vars

\* C19 witness: delete of an absent key returned None on a Hamt with pairs
\* that remembers its flushed CID.
C19_Witness ==
    /\ ret.op = "delete"
    /\ ret.res = Ok(None)
    /\ IsSome(hamt.flushed_cid)
    /\ ~Hamt_is_empty(hamt)

\* C20: StateTree::new with a version V0..V4 returns a fatal error, makes no
\* tree and puts nothing into the store; new_from_root returns a fatal error
\* for a root whose block is missing, is no state root or has a version
\* V0..V4; a tree that either of them makes has version V5.
C20_VersionGating ==
    [][/\ StepOf("new")
            => IF ret'.arg[1] # V5
               THEN /\ ret'.res = Fatal
                    /\ tree' = tree
                    /\ store' = store
               ELSE /\ IsOk(ret'.res)
                    /\ tree'.version = V5
       /\ StepOf("new_from_root")
            => LET c == ret'.arg[1] IN
               /\ (c \notin store \/ BlockOf(c)[1] # "root" \/ BlockOf(c)[2] # V5)
                    => (ret'.res = Fatal /\ tree' = tree)
               /\ IsOk(ret'.res) => tree'.version = V5]_vars

\* C20 witness: new_from_root refused the stored root of a V4 tree whose
\* info and actors blocks are in the store.
C20_Witness ==
    /\ ret.op = "new_from_root"
    /\ ret.res = Fatal
    /\ ret.arg[1] = EmptyRoot(4)
    /\ {EmptyRoot(4), Cid(StateInfo0), Cid(ActorsNode(Node_default))} \subseteq store

\* the ids whose actor-cache entry is dirty
DirtyIds(t) ==
    {id \in DOMAIN t.actor_cache.map : t.actor_cache.map[id].dirty}

\* C21: mutate_actor(id, f) on an id for which get_actor answers None (never
\* set, or deleted) returns the fatal lookup error, whatever f would return,
\* marks no entry dirty and changes no get_actor answer; maybe_mutate_actor_id
\* in the same situation returns Ok(false).
C21_MutateMissing ==
    [][(StepOf("mutate_actor") /\ get_actor(tree, ret'.arg[1]).res = Ok(None))
        => /\ ret'.res = Fatal
           /\ DirtyIds(tree') = DirtyIds(tree)
           /\ Actors(tree') = Actors(tree)
           /\ tree'.actor_cache.map[ret'.arg[1]].actor = None
           /\ maybe_mutate_actor_id(tree, ret'.arg[1], ret'.arg[2]).res
                 = Ok(FALSE)]_vars

\* C21 witness: mutate_actor with the failing closure was called on a deleted
\* actor and returned the fatal error, not the closure's.
C21_Witness ==
    /\ ret.op = "mutate_actor"
    /\ ret.arg[2] = "fail"
    /\ ret.res = Fatal
    /\ ret.arg[1] \in DirtyIds(tree)
    /\ tree.actor_cache.map[ret.arg[1]].actor = None

\* the next_id of the init actor's state as the tree sees it
NextId(t, s) == InitActorState_load(t, s).res[2][1][3]

\* what lookup_id answers for every address of RegAddrs
Lookups(t, s) == [a \in RegAddrs |-> lookup_id(t, s, a).res]

\* C22: from the genesis init actor the first successful
\* register_new_address returns 100 and every successful one returns the
\* init state's next_id and bumps it, so that successive successful calls
\* return consecutive ids; after register_new_address(addr) returned n for
\* an address not registered before, lookup_id(addr) answers Some(n), the
\* init actor's cache entry is dirty and its state CID names the updated
\* init state in the store; calls other than a reverting end_transaction
\* and a successful registration leave every lookup_id answer alone.
C22_Registration ==
    [][/\ (StepOf("register_new_address") /\ IsOk(ret'.res))
            => /\ steps = 0 => ret'.res[2] = FIRST_NON_SINGLETON_ADDR
               /\ ret'.res[2] = NextId(tree, store)
               /\ NextId(tree', store') = ret'.res[2] + 1
               /\ (ret.op = "register_new_address" /\ IsOk(ret.res))
                     => ret'.res[2] = ret.res[2] + 1
               /\ lookup_id(tree, store, ret'.arg[1]).res = Ok(None)
                     => lookup_id(tree', store', ret'.arg[1]).res
                          = Ok(Some(ret'.res[2]))
               /\ \A a \in RegAddrs \ {ret'.arg[1]} :
                     Lookups(tree', store')[a] = Lookups(tree, store)[a]
               /\ INIT_ACTOR_ID \in DirtyIds(tree')
               /\ tree'.actor_cache.map[INIT_ACTOR_ID].actor[2].state
                     # get_actor(tree, INIT_ACTOR_ID).res[2][2].state
               /\ tree'.actor_cache.map[INIT_ACTOR_ID].actor[2].state \in store'
       /\ (\/ StepOf("lookup_id") \/ StepOf("begin_transaction")
           \/ (StepOf("end_transaction") /\ ret'.arg = <<FALSE>>)
           \/ (StepOf("register_new_address") /\ ~IsOk(ret'.res)))
            => /\ Lookups(tree', store') = Lookups(tree, store)
               /\ NextId(tree', store') = NextId(tree, store)]_vars

\* C22 witness: two addresses were registered one after the other; the
\* second call returned 101 and both are looked up by their ids.
C22_Witness ==
    /\ ret.op = "register_new_address"
    /\ ret.res = Ok(FIRST_NON_SINGLETON_ADDR + 1)
    /\ Lookups(tree, store)[ret.arg[1]] = Ok(Some(FIRST_NON_SINGLETON_ADDR + 1))
    /\ \E a \in RegAddrs \ {ret.arg[1]} :
          Lookups(tree, store)[a] = Ok(Some(FIRST_NON_SINGLETON_ADDR))
    /\ INIT_ACTOR_ID \in DirtyIds(tree)

\* C23: with only insert and get_or_try_insert_with calls since
\* history_len() was h and the map held M, rollback(h) makes the map hold
\* exactly M and history_len() exactly h; rollback(0) restores the contents
\* the map had when its history was last empty.
C23_RollbackRestores ==
    [][(StepOf("rollback") /\ ret'.arg[1] <= history_len(hmap))
        => /\ hmap'.map = ret.past[ret'.arg[1] + 1]
           /\ history_len(hmap') = ret'.arg[1]]_vars

\* C23 witness: a rollback undid at least two records, down to a height
\* above zero, and changed the map.
C23_Witness ==
    /\ ret.op = "rollback"
    /\ ret.arg[1] >= 1
    /\ history_len(ret.before) >= ret.arg[1] + 2
    /\ history_len(hmap) = ret.arg[1]
    /\ hmap.map # ret.before.map
    /\ hmap.map = ret.past[ret.arg[1] + 1]

\* C24: rollback(h) with history_len() <= h returns without a panic and
\* leaves the map contents and history_len() as they were.
C24_RollbackNoOp ==
    [][(StepOf("rollback") /\ history_len(hmap) <= ret'.arg[1])
        => /\ ret'.res = Ok(<<>>)
           /\ hmap'.map = hmap.map
           /\ history_len(hmap') = history_len(hmap)]_vars

\* C24 witness: rollback was called with a height beyond a history that is
\* not empty, and nothing changed.
C24_Witness ==
    /\ ret.op = "rollback"
    /\ history_len(ret.before) >= 2
    /\ ret.arg[1] > history_len(ret.before)
    /\ hmap = ret.before

\* C25: get_or_try_insert_with(k, f) on a present k returns the stored value
\* whatever f would do, and changes neither map nor history; on an absent k
\* with a failing f it returns the error of f and changes neither; on an
\* absent k with f returning v it returns v, stores it and appends exactly
\* the undo record (k, None).
C25_GetOrTryInsertWith ==
    [][StepOf("get_or_try_insert_with")
        => IF ret'.arg[1] \in DOMAIN hmap.map
           THEN /\ ret'.res = Ok(hmap.map[ret'.arg[1]])
                /\ hmap' = hmap
           ELSE IF ret'.arg[2] = <<"Err", "err">>
           THEN /\ ret'.res = <<"Err", "err">>
                /\ hmap' = hmap
           ELSE IsOk(ret'.arg[2])
                => /\ ret'.res = ret'.arg[2]
                   /\ hmap'.map = MapPut(hmap.map, ret'.arg[1], ret'.arg[2][2])
                   /\ hmap'.history
                        = Append(hmap.history, <<ret'.arg[1], None>>)]_vars

\* C25 witness: the call with a closure that would panic found the key,
\* which an earlier call had put into the empty map, and returned the stored
\* value.
C25_Witness ==
    /\ ret.op = "get_or_try_insert_with"
    /\ ret.arg[2] = <<"Panic">>
    /\ ret.arg[1] \in DOMAIN ret.before.map
    /\ ret.res = Ok(ret.before.map[ret.arg[1]])
    /\ hmap = ret.before
    /\ hmap.history = <<<<ret.arg[1], None>>>>

\* C26: deduct_funds(amt) returns the recoverable InsufficientFunds error and
\* leaves the balance as it was if and only if amt > balance; otherwise it
\* returns Ok and the balance is the old balance minus amt.
C26_DeductFunds ==
    [][StepOf("deduct_funds")
        => IF ret'.arg[1] > account.balance
           THEN ret'.res = InsufficientFunds /\ account' = account
           ELSE /\ ret'.res = Ok(<<>>)
                /\ account' = [account EXCEPT !.balance = @ - ret'.arg[1]]]_vars

\* C26 witness: deduct_funds took the whole of a positive balance.
C26_Witness ==
    /\ ret.op = "deduct_funds"
    /\ ret.res = Ok(<<>>)
    /\ ret.before > 0
    /\ ret.arg[1] = ret.before
    /\ account.balance = 0

\* C27: from a balance that is not negative, after any sequence of
\* deposit_funds and deduct_funds calls with arbitrary signed amounts, the
\* balance is not negative.
C27_BalanceNonNegative == account.balance >= 0

\* C28: when a HAMT set or delete of a dirty entry fails during flush, that
\* entry is still dirty when flush returns the error.
C28_DirtyKeptOnFailure ==
    [][(StepOf("flush") /\ ~IsOk(ret'.res))
        => \A id \in DirtyIds(tree) \cap ret'.arg[1] :
              id \in DirtyIds(tree')]_vars

\* the actor the HAMT of the tree holds under the key of id
Stored(t, id) == Hamt_get(t.hamt, to_bytes(new_id(id)))

\* C29: after a successful flush no actor-cache entry is dirty; for every id
\* that was dirty the HAMT holds the cached state under the byte-encoded ID
\* address (no entry if the cached actor was None); the entries that were
\* clean cause no HAMT set or delete, and what the HAMT holds for every
\* other id is as before.
C29_FlushWritesDirty ==
    [][(StepOf("flush") /\ IsOk(ret'.res))
        => /\ DirtyIds(tree') = {}
           /\ DOMAIN tree'.actor_cache.map = DOMAIN tree.actor_cache.map
           /\ \A id \in DirtyIds(tree) :
                 Stored(tree', id) = tree.actor_cache.map[id].actor
           /\ \A id \in ActorIds \ DirtyIds(tree) :
                 Stored(tree', id) = Stored(tree, id)
           /\ flush(tree, store, {}).writes = Cardinality(DirtyIds(tree))]_vars

\* C29 witness: a flush wrote a changed HAMT; it holds the init actor, and
\* the other id has a clean cache entry without an actor and no HAMT entry.
C29_Witness ==
    /\ ret.op = "flush"
    /\ IsOk(ret.res)
    /\ ret.puts = 2
    /\ DirtyIds(tree) = {}
    /\ DOMAIN tree.actor_cache.map = ActorIds
    /\ IsSome(Stored(tree, INIT_ACTOR_ID))
    /\ \E id \in ActorIds :
          tree.actor_cache.map[id].actor = None /\ Stored(tree, id) = None

\* the callers' open frames match the tree: the oldest are the snapshot
\* layers, the read-only frames sit on top of them, and the lowest read-only
\* frame was begun with the flag set
FramesMatch(t, fs) ==
    /\ Len(fs) = Len(t.layers) + t.read_only_layers
    /\ \A i \in 1..Len(t.layers) : ~fs[i].read_only
    /\ t.read_only_layers > 0 => fs[Len(t.layers) + 1].read_only

\* C30 as stated: while is_read_only() holds, begin_transaction and
\* end_transaction change nothing of the tree but read_only_layers, by one.
C30_ReadOnlyFramesOnlyCount ==
    [][is_read_only(tree)
        => /\ StepOf("begin_transaction")
                => tree' = [tree EXCEPT !.read_only_layers = @ + 1]
           /\ StepOf("end_transaction")
                => /\ IsOk(ret'.res)
                   /\ tree' = [tree EXCEPT !.read_only_layers = @ - 1]]_vars

\* C30: while is_read_only() holds, begin_transaction (either flag) and
\* end_transaction (either revert value) change read_only_layers by one and
\* leave the snapshot-layer stack, both cache maps and the HAMT alone; the
\* undo histories are left alone too, except that the end of the last open
\* frame discards them.  The read-only frames sit on top of all snapshot
\* layers and the frames end in the reverse order of their begins.
C30_ReadOnlyFrames ==
    [][/\ FramesMatch(tree, frames) /\ FramesMatch(tree', frames')
       /\ is_read_only(tree)
            => /\ StepOf("begin_transaction")
                    => /\ tree' = [tree EXCEPT !.read_only_layers = @ + 1]
                       /\ frames' = Append(frames, frames'[Len(frames')])
               /\ StepOf("end_transaction")
                    => /\ IsOk(ret'.res)
                       /\ tree'.read_only_layers = tree.read_only_layers - 1
                       /\ tree'.layers = tree.layers
                       /\ tree'.hamt = tree.hamt
                       /\ tree'.actor_cache.map = tree.actor_cache.map
                       /\ tree'.resolve_cache.map = tree.resolve_cache.map
                       /\ frames' = SubSeq(frames, 1, Len(frames) - 1)
                       /\ IF tree.read_only_layers = 1 /\ tree.layers = <<>>
                          THEN /\ tree'.actor_cache.history = <<>>
                               /\ tree'.resolve_cache.history = <<>>
                          ELSE /\ tree'.actor_cache.history
                                    = tree.actor_cache.history
                               /\ tree'.resolve_cache.history
                                    = tree.resolve_cache.history]_vars

\* C30 witness: inside a snapshot layer and two read-only frames, of which
\* the inner was begun with the flag false, an end_transaction asked to
\* revert ended the inner one: one read-only frame and the layer are left.
C30_Witness ==
    /\ ret.op = "end_transaction"
    /\ ret.arg = <<TRUE>>
    /\ IsOk(ret.res)
    /\ tree.read_only_layers = 1
    /\ Len(tree.layers) = 1
    /\ Len(frames) = 2
    /\ frames[2].read_only

\* C31: end_transaction on an idle tree (no snapshot layer, read_only_layers
\* = 0) returns the fatal error and leaves the whole tree as it was: both
\* cache maps, their undo histories, the layer stack and the counter, which
\* stays 0.
C31_EndOnIdleTree ==
    [][(StepOf("end_transaction") /\ tree.layers = <<>>
            /\ tree.read_only_layers = 0)
        => /\ ret'.res = Fatal
           /\ tree'.actor_cache = tree.actor_cache
           /\ tree'.resolve_cache = tree.resolve_cache
           /\ tree'.layers = <<>>
           /\ tree'.read_only_layers = 0
           /\ tree' = tree
           /\ frames' = frames]_vars

\* C31 witness: end_transaction failed on an idle tree whose actor cache
\* holds entries and an undo record.
C31_Witness ==
    /\ ret.op = "end_transaction"
    /\ ret.res = Fatal
    /\ tree.layers = <<>>
    /\ tree.read_only_layers = 0
    /\ DOMAIN tree.actor_cache.map # {}
    /\ history_len(tree.actor_cache) > 0

\* C32: transaction depth invariant. frames holds one element for every
\* begin_transaction call of the tree that no end_transaction returning Ok
\* has matched yet, so Len(frames) is the number of begins minus the number
\* of successful ends. In every reachable state that number is layers.len()
\* + read_only_layers, in_transaction() is true exactly when it is above 0,
\* is_read_only() exactly when read_only_layers is above 0, and there are
\* never more snapshot layers than open begins made with read_only = false.
C32_TransactionDepth ==
    /\ Len(frames) = Len(tree.layers) + tree.read_only_layers
    /\ in_transaction(tree) <=> Len(frames) > 0
    /\ is_read_only(tree) <=> tree.read_only_layers > 0
    /\ tree.read_only_layers >= 0
    /\ Len(tree.layers)
         <= Cardinality({i \in 1..Len(frames) : ~frames[i].read_only})

\* C32 witness: two nested begin(false) and a begin(true) on top of them are
\* open.
C32_Witness ==
    /\ ret.op = "begin_transaction"
    /\ Len(tree.layers) = 2
    /\ tree.read_only_layers = 1
    /\ Len(frames) = 3
    /\ frames[3].read_only

\* the ids of the ID addresses lookup_id is asked about, with and without an
\* actor
LookupIds == 0..3

\* C33: lookup_id on an ID address ID(n) returns Some(n) for every n and in
\* every state, whether or not actor n or the init actor exists, and leaves
\* the whole tree (both caches and their histories) unchanged. A lookup_id
\* of a non-ID address puts the address into the resolve cache exactly when
\* it returns Some(id), with that id; when it returns None or fails the
\* resolve cache and its history stay as they were.
C33_LookupId ==
    [][/\ \A n \in LookupIds :
            lookup_id(tree, store, new_id(n)) =
                [tree |-> tree, res |-> Ok(Some(n))]
       /\ StepOf("lookup_id") =>
            IF ret'.arg[1][1] = "ID"
            THEN /\ ret'.res = Ok(Some(ret'.arg[1][2]))
                 /\ tree' = tree
            ELSE IF IsOk(ret'.res) /\ IsSome(ret'.res[2])
            THEN /\ HistoryMap_get(tree'.resolve_cache, ret'.arg[1])
                      = ret'.res[2]
                 /\ \A a \in Addrs \ {ret'.arg[1]} :
                      HistoryMap_get(tree'.resolve_cache, a)
                        = HistoryMap_get(tree.resolve_cache, a)
            ELSE tree'.resolve_cache = tree.resolve_cache]_vars

\* C33 witness: lookup_id answered Some(2) for ID(2) in a tree that has
\* neither actor 2 nor the init actor.
C33_Witness ==
    /\ ret.op = "lookup_id"
    /\ ret.arg = <<new_id(2)>>
    /\ ret.res = Ok(Some(2))
    /\ get_actor(tree, 2).res = Ok(None)
    /\ get_actor(tree, INIT_ACTOR_ID).res = Ok(None)

\* C34: reads never dirty the tree. A get_actor of an id the actor cache does
\* not hold returns what the HAMT holds for the id, present or absent, and
\* caches it with dirty = false; no get_actor and no lookup_id changes the
\* answer get_actor gives for any id or the set of dirty entries; and a
\* flush that only get_actor and lookup_id calls separate from the previous
\* successful flush returns the root CID that flush returned.
C34_ReadsStayClean ==
    [][/\ (StepOf("get_actor") /\ ret'.arg[1] \notin DOMAIN tree.actor_cache.map)
            => /\ ret'.res = Ok(Stored(tree, ret'.arg[1]))
               /\ HistoryMap_get(tree'.actor_cache, ret'.arg[1])
                    = Some([dirty |-> FALSE,
                            actor |-> Stored(tree, ret'.arg[1])])
       /\ (StepOf("get_actor") \/ StepOf("lookup_id"))
            => /\ Actors(tree') = Actors(tree)
               /\ DirtyIds(tree') = DirtyIds(tree)
               /\ tree'.hamt = tree.hamt
       /\ (StepOf("flush") /\ ret'.repeat)
            => ret'.res = Ok(ret.flushed[2])]_vars

\* C34 witness: a flush returned the root of the flush before it after a
\* get_actor in between had cached an absent actor as a clean entry.
C34_Witness ==
    /\ ret.op = "flush"
    /\ ret.repeat
    /\ IsOk(ret.res)
    /\ \E id \in DOMAIN tree.actor_cache.map :
          /\ tree.actor_cache.map[id] = [dirty |-> FALSE, actor |-> None]
          /\ Stored(tree, id) = None

\* C35: every tree that new or new_from_root constructed has version V5 and
\* a present info CID, in every state; so flush never takes the V0 branch
\* and never meets a missing info: it succeeds, the root it returns is the
\* CID of a StateRoot block that it put into the store and that carries V5,
\* the info CID the tree was constructed with and the flushed HAMT root, and
\* the tree keeps its version and its info CID.
C35_VersionAndInfo ==
    [][/\ tree' # <<>> => tree'.version = V5 /\ IsSome(tree'.info)
       /\ StepOf("flush") =>
            /\ IsOk(ret'.res)
            /\ ret'.res[2] \in store'
            /\ ret'.res[2] = Cid(StateRoot(V5, tree.info[2],
                                 Hamt_flush(tree'.hamt, store').cid))
            /\ tree'.version = tree.version
            /\ tree'.info = tree.info]_vars

\* C35 witness: a flush of a constructed tree returned the CID of a stored
\* V5 root that carries the info CID of the tree.
C35_Witness ==
    /\ ret.op = "flush"
    /\ IsOk(ret.res)
    /\ ret.res[2] \in store
    /\ BlockOf(ret.res[2])[2] = V5
    /\ Some(BlockOf(ret.res[2])[3]) = tree.info

\* C36: mutate_actor(id, f) on an actor that exists, in a tree that is not
\* read-only. If f returns Ok the call returns Ok, get_actor(id) afterwards
\* returns the previous state with f applied and the entry of id is dirty;
\* if f returns an error the call returns that error, get_actor answers for
\* every id as before, and the dirty flag of every entry, that of id
\* included, is as before. The answers for the other ids never change.
C36_MutateExisting ==
    [][(/\ StepOf("mutate_actor")
        /\ ~is_read_only(tree)
        /\ IsSome(get_actor(tree, ret'.arg[1]).res[2]))
       => /\ \A id \in ActorIds \ {ret'.arg[1]} :
                get_actor(tree', id).res = get_actor(tree, id).res
          /\ IF IsOk(Mutate(ret'.arg[2], get_actor(tree, ret'.arg[1]).res[2][2]))
             THEN /\ ret'.res = Ok(<<>>)
                  /\ get_actor(tree', ret'.arg[1]).res =
                       Ok(Some(Mutate(ret'.arg[2],
                               get_actor(tree, ret'.arg[1]).res[2][2])[2]))
                  /\ DirtyIds(tree') = DirtyIds(tree) \cup {ret'.arg[1]}
             ELSE /\ ret'.res = Mutate(ret'.arg[2],
                                  get_actor(tree, ret'.arg[1]).res[2][2])
                  /\ get_actor(tree', ret'.arg[1]).res
                       = get_actor(tree, ret'.arg[1]).res
                  /\ DirtyIds(tree') = DirtyIds(tree)]_vars

\* C36 witness: a mutate_actor whose closure failed returned the closure's
\* error for an existing actor whose entry is clean.
C36_Witness ==
    /\ ret.op = "mutate_actor"
    /\ ret.arg[2] = "fail"
    /\ ret.res = <<"Err", "OutOfGas">>
    /\ ~is_read_only(tree)
    /\ IsSome(get_actor(tree, ret.arg[1]).res[2])
    /\ ret.arg[1] \notin DirtyIds(tree)

\* C37: snapshot heights invariant. In every reachable state the
\* actor_cache_height and the resolve_cache_height recorded in the snapshot
\* layers do not decrease from the bottom of the stack to its top, and each
\* is at most the current history_len() of its cache: the undo records a
\* revert of any open layer needs are still in the history.
C37_SnapshotHeights ==
    /\ \A i \in 1..Len(tree.layers) :
          /\ tree.layers[i].actor_cache_height
                <= history_len(tree.actor_cache)
          /\ tree.layers[i].resolve_cache_height
                <= history_len(tree.resolve_cache)
    /\ \A i \in 1..(Len(tree.layers) - 1) :
          /\ tree.layers[i].actor_cache_height
                <= tree.layers[i + 1].actor_cache_height
          /\ tree.layers[i].resolve_cache_height
                <= tree.layers[i + 1].resolve_cache_height

\* C37 witness: two snapshot layers are open, the inner one begun after more
\* writes than the outer one, and more was written since.
C37_Witness ==
    /\ Len(tree.layers) = 2
    /\ 0 < tree.layers[1].actor_cache_height
    /\ tree.layers[1].actor_cache_height < tree.layers[2].actor_cache_height
    /\ tree.layers[2].actor_cache_height < history_len(tree.actor_cache)

\* C38: clean-entry coherence. In every reachable state every actor-cache
\* entry with dirty = false holds exactly what the HAMT holds for its id
\* (None if the HAMT has no entry for it); this includes the entries a
\* reverting end_transaction restored from the undo history.
C38_CleanEntries ==
    \A id \in DOMAIN tree.actor_cache.map :
        ~tree.actor_cache.map[id].dirty
            => tree.actor_cache.map[id].actor = Stored(tree, id)

\* C38 witness: a reverting end_transaction brought back a clean entry that
\* holds the actor the HAMT holds, after the transaction had changed it.
C38_Witness ==
    /\ ret.op = "end_transaction"
    /\ ret.arg = <<TRUE>>
    /\ IsOk(ret.res)
    /\ ret.changed
    /\ \E id \in DOMAIN tree.actor_cache.map :
          /\ ~tree.actor_cache.map[id].dirty
          /\ IsSome(tree.actor_cache.map[id].actor)
          /\ tree.actor_cache.map[id].actor = Stored(tree, id)

\* what the init actor state that get_actor currently returns resolves the
\* address to
InitResolves(t, s, addr) ==
    IF IsOk(InitActorState_load(t, s).res)
    THEN resolve_address(InitActorState_load(t, s).res[2][1], s, addr)
    ELSE InitActorState_load(t, s).res

\* every resolve-cache entry addr -> id is resolvable to id from the current
\* init actor state
NoStaleResolution(t, s) ==
    \A a \in DOMAIN t.resolve_cache.map :
        InitResolves(t, s, a) = Ok(Some(t.resolve_cache.map[a]))

\* C39 as stated: the init actor's state changes only through
\* register_new_address, and in every state every resolve-cache entry
\* addr -> id is also resolvable to id from the init actor state that
\* get_actor currently returns.
C39_NoStaleResolutionEver == NoStaleResolution(tree, store)

\* C39, amended: after a transaction that ends with revert = true, lookup_id
\* returns None for every address the init actor state then current does not
\* resolve, whatever was registered and resolved inside the transaction; and
\* every step keeps every resolve-cache entry resolvable to its id from the
\* current init actor state, except a register_new_address of an address the
\* resolve cache already holds.
C39_NoStaleResolution ==
    [][/\ (StepOf("end_transaction") /\ ret'.arg = <<TRUE>> /\ IsOk(ret'.res)
             /\ ~is_read_only(tree))
            => \A a \in RegAddrs :
                  InitResolves(tree', store', a) = Ok(None)
                     => lookup_id(tree', store', a).res = Ok(None)
       /\ (/\ NoStaleResolution(tree, store)
           /\ ~(/\ StepOf("register_new_address")
                /\ ret'.arg[1] \in DOMAIN tree.resolve_cache.map))
            => NoStaleResolution(tree', store')]_vars

\* C39 witness: a reverting end_transaction ended a transaction at whose end
\* the resolve cache held an address that the init actor state after the
\* revert does not resolve, and lookup_id answers None for it.
C39_Witness ==
    /\ ret.op = "end_transaction"
    /\ ret.arg = <<TRUE>>
    /\ IsOk(ret.res)
    /\ \E a \in ret.resolved :
          /\ InitResolves(tree, store, a) = Ok(None)
          /\ lookup_id(tree, store, a).res = Ok(None)

\* for_each visits an ID address with state s if and only if get_actor of
\* that id returns Some(s)
ForEachAgrees(t) ==
    /\ \A v \in for_each(t) :
          /\ v[1][1] = "ID"
          /\ get_actor(t, v[1][2]).res = Ok(Some(v[2]))
    /\ \A id \in ActorIds :
          IsSome(get_actor(t, id).res[2])
             => <<new_id(id), get_actor(t, id).res[2][2]>> \in for_each(t)

\* C40: after a successful flush and until the next successful set_actor,
\* delete_actor or mutate_actor (the set_actor that register_new_address
\* makes to store the init actor is one of them), for_each visits an ID
\* address with state s if and only if get_actor of that id returns Some(s).
C40_ForEachAgrees == ret.synced => ForEachAgrees(tree)

\* C40 witness: after a flush, reads and a reverted transaction, for_each
\* visits the actors get_actor returns and no id for which the cache holds
\* an absent actor.
C40_Witness ==
    /\ ret.op = "end_transaction"
    /\ ret.arg = <<TRUE>>
    /\ IsOk(ret.res)
    /\ ret.synced
    /\ for_each(tree) # {}
    /\ ForEachAgrees(tree)
    /\ \E id \in DOMAIN tree.actor_cache.map :
          tree.actor_cache.map[id].actor = None

====
